---- MODULE Spec2Model ----
(***************************************************************************)
(* OSARA parameters UI (src/src/paramsUi.cpp).                             *)
(*                                                                         *)
(* Several state machines share this module:                               *)
(*   SpecFx   - FxIterator driven by fxParams_begin over a host FX tree    *)
(*   SpecNav  - ParamsDialog slider keys driving onSliderChange            *)
(*   SpecWalk - the arrow keys alone, watched from the first value         *)
(*   SpecList - Ctrl+Tab, Ctrl+Shift+Tab and the filter over the list      *)
(*   SpecCtor - parameter sources constructing their Params                *)
(*   SpecAcc  - getValue and setValue of a materialized Param              *)
(*                                                                         *)
(* An FX chain is a forest: a sequence of nodes, each node being the       *)
(* sequence of its children (<< >> is an effect without children).  Paths  *)
(* are sequences of 1-based sibling positions; the code's indexInContainer *)
(* is 0-based.                                                             *)
(***************************************************************************)
EXTENDS Integers, Sequences, FiniteSets, TLC

VARIABLES
    \* ---- host (REAPER) state for the subject of fxParams_begin
    isTrack,        \* subject is a MediaTrack (TRUE) or a MediaItem_Take
    fxTree,         \* the normal FX chain
    recTree,        \* the input/monitoring FX chain (tracks only)
    \* ---- FxIterator fields
    stack, rec, fxIndex, containedCount,
    \* ---- fxParams_begin locals and effects
    pc,             \* "loop" | "menu" | "done"
    count, fx, menus, items, message, menuShown, dialogFx,
    \* ---- history of successful next() calls
    yields,
    \* ---- ParamsDialog / Param / host parameter state
    param,          \* [min, max, step, largeStep]
    fmt,            \* host formatter: value -> text (Empty = sentinel)
    stored,         \* backing store of the parameter
    val, valText,
    last,           \* history of the last slider request
    walk,           \* history of an alternating up/down key sequence
    \* ---- ParamsDialog parameter list
    paramCount,     \* size of the source's catalog
    hostVals,       \* host value of each catalog entry
    visibleParams,  \* catalog numbers passing the filter, in combo order
    curSel,         \* ComboBox_GetCurSel(paramCombo), -1 when none
    paramNum,       \* catalog number of the active Param
    materialized,   \* arguments of getParam in the last handler
    fault,          \* visibleParams was read outside its bounds
    lastTab,        \* history of the last list key
    sliderEnabled,  \* EnableWindow state of the slider
    lastRebuild,    \* history of the last updateParamList
    \* ---- parameter sources, Param objects and their host backing
    source,         \* the ParamSource of the dialog, or NoSource
    obj,            \* the materialized Param, or NoParam
    raw,            \* host field behind a track/item/take Param
    hostCfg,        \* host named-config values of the effect, by name
    op,             \* history of the last operation on source or obj
    \* ---- value edit box
    lastEdit,       \* history of the last onValueEdited
    \* ---- an FxIterator called directly
    iterHist,       \* results of its next() calls; reads of an empty stack
    \* ---- the delayed bypass report
    reportFxChainBypassTimer,   \* 0 or the id SetTimer returned
    hostTimers,     \* ids of the host's live timers for the report callback
    fxListFocused,  \* isFxListFocused()
    bypassHist,     \* history of requests, firings and reports
    \* ---- the commands that open a ParamsDialog, and the dialogs
    isParamsDialogOpen,
    dialogs,        \* live ParamsDialog objects: id -> [prevFocus, closePosted]
    accels,         \* ids whose accelReg the host has registered
    hostFocus,      \* GetFocus()
    subject,        \* what the host reports as focused, touched and selected
    cmdHist,        \* history of the last command or dialog event
    \* ---- the text of a length parameter
    lastText,       \* the function-static lastText of getValueText
    timeCache,      \* text of the host formatter's previous call, or Empty
    timeText,       \* the host's ruler text of each value
    lenHist         \* history of the last getValueText call

fxVars  == <<isTrack, fxTree, recTree, stack, rec, fxIndex, containedCount,
             pc, count, fx, menus, items, message, menuShown, dialogFx, yields>>
navVars == <<param, fmt, stored, val, valText, last, walk>>
listVars == <<paramCount, hostVals, visibleParams, curSel, paramNum,
              materialized, fault, lastTab, sliderEnabled, lastRebuild>>
provVars == <<source, obj, raw, hostCfg, op>>
timerVars == <<reportFxChainBypassTimer, hostTimers, fxListFocused, bypassHist>>
cmdVars == <<isParamsDialogOpen, dialogs, accels, hostFocus, subject, cmdHist>>
lenVars == <<lastText, timeCache, timeText, lenHist>>
auxVars == <<lastEdit, iterHist, reportFxChainBypassTimer, hostTimers,
             fxListFocused, bypassHist,
             isParamsDialogOpen, dialogs, accels, hostFocus, subject, cmdHist,
             lastText, timeCache, timeText, lenHist>>
vars    == <<isTrack, fxTree, recTree, stack, rec, fxIndex, containedCount,
             pc, count, fx, menus, items, message, menuShown, dialogFx, yields,
             param, fmt, stored, val, valText, last, walk,
             paramCount, hostVals, visibleParams, curSel, paramNum,
             materialized, fault, lastTab, sliderEnabled, lastRebuild,
             source, obj, raw, hostCfg, op,
             lastEdit, iterHist, reportFxChainBypassTimer, hostTimers,
             fxListFocused, bypassHist,
             isParamsDialogOpen, dialogs, accels, hostFocus, subject, cmdHist,
             lastText, timeCache, timeText, lenHist>>

\* ------------------------------------------------------------------ bounds
\* Total number of effects (normal chain plus input/monitoring chain).
MaxNodes == 6
\* The parameter's range is 0..MaxVal, in units of the value grid.
MaxVal == 4
\* Number of ParamsDialog objects alive at once.
MaxDialogs == 2
\* Number of maybeReportFxChainBypassDelayed calls in a run.
MaxRequests == 3
\* Number of timer ids the host hands out.
MaxTimerId == 2
\* Number of next() calls made on an iterator that has returned false.
MaxExtraCalls == 2
\* Number of distinct non-empty texts the host formatter can return.
NTexts == 2
\* Largest catalog of a parameter source.
MaxParams == 3
\* Largest number of ReaEQ bands the host reports.
MaxBands == 1

\* ------------------------------------------------------- program constants
RecOffset     == 16777216   \* 0x1000000
ContainerFlag == 33554432   \* 0x2000000

\* ------------------------------------------------------------------ forests
RECURSIVE ForestsOfSize(_)
ForestsOfSize(n) ==
    IF n = 0 THEN { << >> }
    ELSE UNION { { <<c>> \o r : c \in ForestsOfSize(k - 1),
                                r \in ForestsOfSize(n - k) } : k \in 1..n }

RECURSIVE Sub(_, _)
\* The children of the node at path p of forest f (f itself for p = << >>).
Sub(f, p) == IF p = << >> THEN f ELSE Sub(f[Head(p)], Tail(p))

Last(s) == s[Len(s)]
Front(s) == SubSeq(s, 1, Len(s) - 1)

\* --------------------------------------------------------- host addressing
NoFx == [ok |-> FALSE, rec |-> FALSE, path |-> << >>]

RECURSIVE DecodePath(_, _)
\* REAPER's container addressing below the top level: x <= n addresses child
\* x of the current container; otherwise x mod (n+1) selects the
\* sub-container and x div (n+1) is decoded inside it.  A 0 in the result
\* marks a bad address.
DecodePath(f, x) ==
    LET n == Len(f) IN
    IF x <= n THEN (IF x > 0 THEN <<x>> ELSE << >>)
    ELSE LET cur == x % (n + 1)
             rem == x \div (n + 1)
         IN  IF cur < 1 THEN <<0>> ELSE <<cur>> \o DecodePath(f[cur], rem)

\* The effect the host's TrackFX_* / TakeFX_* functions address with idx.
HostResolve(idx) ==
    IF idx < 0 \/ idx \div RecOffset > 3 THEN NoFx
    ELSE LET flags == idx \div RecOffset
             x     == idx % RecOffset
             r     == flags % 2 = 1
             f     == IF r THEN recTree ELSE fxTree
             n     == Len(f)
         IN  IF r /\ ~isTrack THEN NoFx
             ELSE IF flags < 2
                  THEN IF x < n THEN [ok |-> TRUE, rec |-> r, path |-> <<x + 1>>]
                       ELSE NoFx
             ELSE LET cur == x % (n + 1)
                      rem == x \div (n + 1)
                  IN  IF cur < 1 THEN NoFx
                      ELSE LET p == <<cur>> \o DecodePath(f[cur], rem)
                           IN  IF \E i \in 1..Len(p) : p[i] = 0 THEN NoFx
                               ELSE [ok |-> TRUE, rec |-> r, path |-> p]

\* *FX_GetNamedConfigParm(obj, idx, "container_count") followed by atoi; the
\* buffer keeps its initial "0" when the host does not know the address.
ContainerCount(idx) ==
    LET h == HostResolve(idx) IN
    IF h.ok THEN Len(Sub(IF h.rec THEN recTree ELSE fxTree, h.path)) ELSE 0

\* -------------------------------------------------------------- FxIterator
StackItem(i, c, cfi, m) ==
    [indexInContainer |-> i, containerCount |-> c,
     containerFxIndex |-> cfi, multiplier |-> m]

\* The path the iterator's frames point at.
StackPath(s) == [i \in 1..Len(s) |-> s[i].indexInContainer + 1]

\* FlatIndex without the input/monitoring offset.
FlatIndexNoRecOffset(st, r) ==
    LET item == Last(st)
    IN  IF Len(st) = 1 THEN item.indexInContainer
        ELSE (item.indexInContainer + 1) * item.multiplier
             + item.containerFxIndex

\* FxIterator::success with the frames st and the rec flag r: the cached
\* flat index.
FlatIndex(st, r) ==
    LET item == Last(st)
        base == IF r THEN RecOffset ELSE 0
    IN  IF Len(st) = 1 THEN base + item.indexInContainer
        ELSE base + (item.indexInContainer + 1) * item.multiplier
                  + item.containerFxIndex

\* success leaving containedCount at the "0" its buffer starts with.
successNoCount(st, r) ==
    [ok |-> TRUE, stack |-> st, rec |-> r, fxIndex |-> FlatIndex(st, r),
     containedCount |-> 0]

success(st, r) ==
    LET idx == FlatIndex(st, r) IN
    [ok |-> TRUE, stack |-> st, rec |-> r, fxIndex |-> idx,
     containedCount |-> ContainerCount(idx)]

\* EnterContainer scaling by the sibling count instead of the count plus one.
EnterContainerNoPlusOne(st, idx, cc) ==
    LET current == Last(st) IN
    StackItem(0, cc,
              IF Len(st) = 1 THEN ContainerFlag + current.indexInContainer + 1
              ELSE idx,
              current.multiplier * current.containerCount)

\* The frame pushed when entering the container just yielded.
EnterContainer(st, idx, cc) ==
    LET current == Last(st) IN
    StackItem(0, cc,
              IF Len(st) = 1 THEN ContainerFlag + current.indexInContainer + 1
              ELSE idx,
              current.multiplier * (current.containerCount + 1))

\* Advance that gives up at the end of a container instead of walking out.
AdvanceNoWalkOut(st) ==
    LET current == Last(st)
        i == current.indexInContainer + 1
    IN  IF i < current.containerCount
        THEN [st EXCEPT ![Len(st)].indexInContainer = i]
        ELSE << >>

RECURSIVE Advance(_)
\* The for(;;) loop of next(): move to the next sibling, walking out of
\* finished containers; << >> when the frames run out.
Advance(st) ==
    LET current == Last(st)
        i == current.indexInContainer + 1
        moved == [st EXCEPT ![Len(st)].indexInContainer = i]
    IN  IF i < current.containerCount THEN moved
        ELSE IF Len(st) = 1 THEN << >>
        ELSE Advance(Front(st))

\* firstRec entering the input/monitoring chain even when it is empty.
firstRecAlways ==
    success(<<StackItem(0, Len(recTree), 0, 1)>>, TRUE)

\* FxIterator::firstRec, called with the frames popped empty.
firstRec ==
    LET n == Len(recTree) IN
    IF n > 0 THEN success(<<StackItem(0, n, 0, 1)>>, TRUE)
    ELSE [ok |-> FALSE, stack |-> << >>, rec |-> rec, fxIndex |-> fxIndex,
          containedCount |-> containedCount]

\* FxIterator::next on the current iterator state.
next ==
    IF containedCount # 0
    THEN success(Append(stack, EnterContainer(stack, fxIndex, containedCount)), rec)
    ELSE LET st == Advance(stack) IN
         IF st # << >> THEN success(st, rec)
         ELSE IF isTrack /\ ~rec THEN firstRec
         ELSE [ok |-> FALSE, stack |-> << >>, rec |-> rec, fxIndex |-> fxIndex,
               containedCount |-> containedCount]

getLevel(st) == Len(st)

\* ------------------------------------------------ the iterator on its own
NoCalls == [results |-> << >>, extra |-> 0, emptyRead |-> FALSE]

\* next() called on an iterator that still has frames.
IterNext ==
    /\ stack # << >>
    /\ LET n == next
       IN  /\ stack' = n.stack
           /\ rec' = n.rec
           /\ fxIndex' = n.fxIndex
           /\ containedCount' = n.containedCount
           /\ yields' = IF n.ok
                        THEN Append(yields,
                                [fx |-> n.fxIndex, level |-> getLevel(n.stack),
                                 rec |-> n.rec, path |-> StackPath(n.stack),
                                 container |-> n.containedCount # 0])
                        ELSE yields
           /\ iterHist' = [iterHist EXCEPT !.results = Append(@, n.ok)]
    /\ UNCHANGED <<isTrack, fxTree, recTree, pc, count, fx, menus, items,
                   message, menuShown, dialogFx>>
    /\ UNCHANGED <<navVars, listVars, provVars, lastEdit>>
    /\ UNCHANGED timerVars
    /\ UNCHANGED cmdVars
    /\ UNCHANGED lenVars

\* next() called on an iterator whose frames have all been popped: its first
\* statement takes stack.back() of the empty vector and the loop increments
\* and compares the fields found there.  Either what is found looks like a
\* finished frame and the call returns false, or it looks like a frame with
\* another effect and success() yields an index made from it.
IterNextExhausted ==
    /\ stack = << >>
    /\ iterHist.extra < MaxExtraCalls
    /\ \/ /\ iterHist' = [results |-> Append(iterHist.results, FALSE),
                           extra |-> iterHist.extra + 1,
                           emptyRead |-> TRUE]
          /\ UNCHANGED <<fxIndex, containedCount, yields>>
       \/ \E g \in {0, RecOffset} :
             /\ iterHist' = [results |-> Append(iterHist.results, TRUE),
                             extra |-> iterHist.extra + 1,
                             emptyRead |-> TRUE]
             /\ fxIndex' = g
             /\ containedCount' = 0
             /\ yields' = Append(yields,
                              [fx |-> g, level |-> 0, rec |-> rec,
                               path |-> << >>, container |-> FALSE])
    /\ UNCHANGED <<isTrack, fxTree, recTree, stack, rec, pc, count, fx, menus,
                   items, message, menuShown, dialogFx>>
    /\ UNCHANGED <<navVars, listVars, provVars, lastEdit>>
    /\ UNCHANGED timerVars
    /\ UNCHANGED cmdVars
    /\ UNCHANGED lenVars

\* ---------------------------------------------------------- fxParams_begin
\* State after `FxIterator iter(obj)` and the creation of the root menu
\* (menu 0), fxParams_begin lines 1345-1353.
FxBegin ==
    /\ stack = <<StackItem(-1, Len(fxTree), 0, 1)>>
    /\ rec = FALSE
    /\ fxIndex = -1
    /\ containedCount = 0
    /\ pc = "loop"
    /\ count = 0
    /\ fx = -1
    /\ menus = <<0>>
    /\ items = << >>
    /\ message = ""
    /\ menuShown = FALSE
    /\ dialogFx = << >>
    /\ yields = << >>

\* The host trees a subject can have: at most MaxNodes effects in all; a take
\* has no input/monitoring chain.
FxInit ==
    /\ isTrack \in BOOLEAN
    /\ \E a \in 0..MaxNodes :
         /\ fxTree \in ForestsOfSize(a)
         /\ \E b \in 0..(MaxNodes - a) :
              /\ (~isTrack) => b = 0
              /\ recTree \in ForestsOfSize(b)
    /\ FxBegin

\* The flat index used as the command id unchanged.
MenuIdRaw(f) == f

\* `itemInfo.wID = fx + 1`: 0 is what TrackPopupMenu returns on cancel.
MenuId(f) == f + 1

\* The loop body's first statement with the pops left out.
PopMenusNone(ms, level) == ms

\* `for (level = menus.size(); level > iter.getLevel(); --level) pop_back()`.
PopMenus(ms, level) ==
    IF Len(ms) > level THEN SubSeq(ms, 1, level) ELSE ms

\* One pass of `while (iter.next())` whose next() returns true: the loop body
\* inserts the effect into the menu of its level.
FxLoopYield ==
    /\ pc = "loop"
    /\ next.ok
    /\ LET n     == next
           level == getLevel(n.stack)
           ms    == PopMenus(menus, level)
           sub   == count + 1
       IN  /\ stack' = n.stack
           /\ rec' = n.rec
           /\ fxIndex' = n.fxIndex
           /\ containedCount' = n.containedCount
           /\ fx' = n.fxIndex
           /\ IF n.containedCount # 0
              THEN /\ items' = items \o
                        << [menu |-> Last(ms), pos |-> count, wID |-> 0,
                            sub |-> sub],
                           [menu |-> sub, pos |-> 0,
                            wID |-> MenuId(n.fxIndex), sub |-> 0] >>
                   /\ menus' = Append(ms, sub)
              ELSE /\ items' = Append(items,
                        [menu |-> Last(ms), pos |-> count,
                         wID |-> MenuId(n.fxIndex), sub |-> 0])
                   /\ menus' = ms
           /\ count' = count + 1
           /\ yields' = Append(yields,
                  [fx |-> n.fxIndex, level |-> level, rec |-> n.rec,
                   path |-> StackPath(n.stack),
                   container |-> n.containedCount # 0,
                   depth |-> Len(ms), menu |-> Last(ms)])
    /\ UNCHANGED <<isTrack, fxTree, recTree, pc, message, menuShown, dialogFx>>
    /\ UNCHANGED navVars
    /\ UNCHANGED listVars
    /\ UNCHANGED provVars
    /\ UNCHANGED auxVars

\* The pass whose next() returns false, and the code after the loop up to the
\* return or the (modal) TrackPopupMenu call.
FxLoopExit ==
    /\ pc = "loop"
    /\ ~next.ok
    /\ LET n == next
       IN  /\ stack' = n.stack
           /\ rec' = n.rec
           /\ fxIndex' = n.fxIndex
           /\ containedCount' = n.containedCount
    /\ IF count = 0
       THEN /\ message' = "no FX"
            /\ pc' = "done"
            /\ UNCHANGED <<menuShown, dialogFx>>
       ELSE IF count > 1
       THEN /\ menuShown' = TRUE
            /\ pc' = "menu"
            /\ UNCHANGED <<message, dialogFx>>
       ELSE /\ dialogFx' = <<fx>>
            /\ pc' = "done"
            /\ UNCHANGED <<message, menuShown>>
    /\ UNCHANGED <<isTrack, fxTree, recTree, count, fx, menus, items, yields>>
    /\ UNCHANGED navVars
    /\ UNCHANGED listVars
    /\ UNCHANGED provVars
    /\ UNCHANGED auxVars

\* TrackPopupMenu returns the chosen item's id, or 0 when cancelled.
FxMenuChoice ==
    /\ pc = "menu"
    /\ \E id \in {0} \cup { items[i].wID : i \in 1..Len(items) } :
         /\ fx' = id - 1
         /\ dialogFx' = IF id - 1 = -1 THEN << >> ELSE <<id - 1>>
    /\ pc' = "done"
    /\ UNCHANGED <<isTrack, fxTree, recTree, stack, rec, fxIndex, containedCount,
                   count, menus, items, message, menuShown, yields>>
    /\ UNCHANGED navVars
    /\ UNCHANGED listVars
    /\ UNCHANGED provVars
    /\ UNCHANGED auxVars

\* ------------------------------------------------------------ ParamsDialog
\* The empty string a formatter returns when it has no text for a value.
Empty == 0

\* Param::getValueText for an effect parameter: the host's text, or "" when
\* the host's formatter fails, as it does for a value it has no text for.
getValueText(v) == IF v \in DOMAIN fmt THEN fmt[v] ELSE Empty

\* updateValueText's fallback, "<percent with one decimal>%"; the texts
\* above 1000 stand for these strings.
PercentText(v) ==
    1000 + ((v - param.min) * 1000) \div (param.max - param.min)

\* The valText left by updateValue for value v.
updateValue(v) ==
    IF getValueText(v) = Empty THEN PercentText(v) ELSE getValueText(v)

\* The loop without the snap: the first candidate is always committed.
SnapLoopNoSnap(newVal, steps, base, step, tested) ==
    [val |-> base, tested |-> <<newVal>>, end |-> "snap"]

RECURSIVE SnapLoopEmptyAsText(_, _, _, _, _)
\* The loop treating the empty sentinel as one more text to compare.
SnapLoopEmptyAsText(newVal, steps, base, step, tested) ==
    IF ~(param.min <= newVal /\ newVal <= param.max)
    THEN [val |-> base, tested |-> tested, end |-> "range"]
    ELSE LET testText == getValueText(newVal)
             tt == Append(tested, newVal)
         IN  IF testText # valText
             THEN [val |-> newVal, tested |-> tt,
                   end |-> IF testText = Empty THEN "empty" ELSE "snap"]
             ELSE SnapLoopEmptyAsText(base + step * steps, steps + 1, base,
                                      step, tt)

RECURSIVE SnapLoopClamp(_, _, _, _, _)
\* The loop committing the tested candidate nearest the range end when it
\* runs out of range.
SnapLoopClamp(newVal, steps, base, step, tested) ==
    IF ~(param.min <= newVal /\ newVal <= param.max)
    THEN [val |-> IF tested = << >> THEN base ELSE tested[Len(tested)],
          tested |-> tested, end |-> "range"]
    ELSE LET testText == getValueText(newVal)
             tt == Append(tested, newVal)
         IN  IF testText = Empty
             THEN [val |-> base, tested |-> tt, end |-> "empty"]
             ELSE IF testText # valText
             THEN [val |-> newVal, tested |-> tt, end |-> "snap"]
             ELSE SnapLoopClamp(base + step * steps, steps + 1, base, step, tt)

RECURSIVE SnapLoopAccumulate(_, _, _, _, _)
\* The loop adding step * steps to the previous candidate instead of to the
\* first one, so that candidates are skipped.
SnapLoopAccumulate(newVal, steps, base, step, tested) ==
    IF ~(param.min <= newVal /\ newVal <= param.max)
    THEN [val |-> base, tested |-> tested, end |-> "range"]
    ELSE LET testText == getValueText(newVal)
             tt == Append(tested, newVal)
         IN  IF testText = Empty
             THEN [val |-> base, tested |-> tt, end |-> "empty"]
             ELSE IF testText # valText
             THEN [val |-> newVal, tested |-> tt, end |-> "snap"]
             ELSE SnapLoopAccumulate(newVal + step * steps, steps + 1, base,
                                     step, tt)

RECURSIVE SnapLoop(_, _, _, _, _)
\* The for loop of onSliderChange.  base is this->val as set before the loop,
\* newVal the candidate under test, steps the loop counter.
SnapLoop(newVal, steps, base, step, tested) ==
    IF ~(param.min <= newVal /\ newVal <= param.max)
    THEN [val |-> base, tested |-> tested, end |-> "range"]
    ELSE LET testText == getValueText(newVal)
             tt == Append(tested, newVal)
         IN  IF testText = Empty
             THEN [val |-> base, tested |-> tt, end |-> "empty"]
             ELSE IF testText # valText
             THEN [val |-> newVal, tested |-> tt, end |-> "snap"]
             ELSE SnapLoop(base + step * steps, steps + 1, base, step, tt)

\* The early return without its two range tests.
RejectedOnlyEqual(newVal) == newVal = val

\* Whether onSliderChange returns at once.
Rejected(newVal) ==
    newVal = val \/ newVal < param.min \/ newVal > param.max

\* onSliderChange clamping an out-of-range request to the boundary instead
\* of rejecting it.
onSliderChangeClamp(newVal) ==
    LET c == IF newVal > param.max THEN param.max
             ELSE IF newVal < param.min THEN param.min ELSE newVal
    IN  IF c = val
        THEN [committed |-> FALSE, val |-> val, tested |-> << >>,
              end |-> "rejected", written |-> << >>]
        ELSE LET step == IF c < val THEN -param.step ELSE param.step
                 r == SnapLoop(c, 1, c, step, << >>)
             IN  [committed |-> TRUE, val |-> r.val, tested |-> r.tested,
                  end |-> r.end, written |-> <<r.val>>]

\* onSliderChange passing the requested value, not this->val, to setValue.
onSliderChangeWriteRequested(newVal) ==
    IF Rejected(newVal)
    THEN [committed |-> FALSE, val |-> val, tested |-> << >>,
          end |-> "rejected", written |-> << >>]
    ELSE LET step == IF newVal < val THEN -param.step ELSE param.step
             r == SnapLoop(newVal, 1, newVal, step, << >>)
         IN  [committed |-> TRUE, val |-> r.val, tested |-> r.tested,
              end |-> r.end, written |-> <<newVal>>]

\* onSliderChange without `this->val = newVal` ahead of the loop: a search
\* that finds no new text leaves the old value.
onSliderChangeNoPreset(newVal) ==
    IF Rejected(newVal)
    THEN [committed |-> FALSE, val |-> val, tested |-> << >>,
          end |-> "rejected", written |-> << >>]
    ELSE LET step == IF newVal < val THEN -param.step ELSE param.step
             r == SnapLoop(newVal, 1, newVal, step, << >>)
             v == IF r.end = "snap" THEN r.val ELSE val
         IN  [committed |-> TRUE, val |-> v, tested |-> r.tested,
              end |-> r.end, written |-> <<v>>]

\* ParamsDialog::onSliderChange(newVal): the value committed, if any, and
\* the values passed to Param::setValue.
onSliderChange(newVal) ==
    IF Rejected(newVal)
    THEN [committed |-> FALSE, val |-> val, tested |-> << >>,
          end |-> "rejected", written |-> << >>]
    ELSE LET step == IF newVal < val THEN -param.step ELSE param.step
             r == SnapLoop(newVal, 1, newVal, step, << >>)
         IN  [committed |-> TRUE, val |-> r.val, tested |-> r.tested,
              end |-> r.end, written |-> <<r.val>>]

\* translateAccel with the page keys moving by the small step.
KeyTargetPageAsArrow(key) ==
    CASE key \in {"up", "pageup"}     -> val + param.step
      [] key \in {"down", "pagedown"} -> val - param.step
      [] key = "home"                 -> param.max
      [] key = "end"                  -> param.min

\* translateAccel: the value a slider key asks for.
KeyTarget(key) ==
    CASE key = "up"       -> val + param.step
      [] key = "down"     -> val - param.step
      [] key = "pageup"   -> val + param.largeStep
      [] key = "pagedown" -> val - param.largeStep
      [] key = "home"     -> param.max
      [] key = "end"      -> param.min

\* The key sequence seen since the walk started: "start", then "up" after
\* each step up that follows "start" or a finished pair, "pair" after the
\* step down that follows it, and "off" for good after anything else.
WalkPhase(key) ==
    IF walk.phase = "off" THEN "off"
    ELSE IF key = "up" /\ walk.phase \in {"start", "pair"} THEN "up"
    ELSE IF key = "down" /\ walk.phase = "up" THEN "pair"
    ELSE "off"

\* A slider key press: translateAccel calls onSliderChange, which, unless it
\* rejects the request, writes the backing store and refreshes the text.
SliderKey(key) ==
    /\ LET newVal == KeyTarget(key)
           r == onSliderChange(newVal)
       IN  /\ val' = r.val
           /\ stored' = IF r.written # << >> THEN Last(r.written) ELSE stored
           /\ valText' = IF r.committed THEN updateValue(r.val) ELSE valText
           /\ last' = [key |-> key, from |-> val, fromText |-> valText,
                       first |-> newVal, committed |-> r.committed,
                       tested |-> r.tested, end |-> r.end,
                       written |-> r.written]
    /\ walk' = [walk EXCEPT !.phase = WalkPhase(key)]
    /\ UNCHANGED <<param, fmt>>
    /\ UNCHANGED fxVars
    /\ UNCHANGED listVars
    /\ UNCHANGED provVars
    /\ UNCHANGED auxVars

KeyUp       == SliderKey("up")
KeyDown     == SliderKey("down")
KeyPageUp   == SliderKey("pageup")
KeyPageDown == SliderKey("pagedown")
KeyHome     == SliderKey("home")
KeyEnd      == SliderKey("end")

NoRequest == [key |-> "none", from |-> 0, fromText |-> Empty, first |-> 0,
              committed |-> FALSE, tested |-> << >>, end |-> "none",
              written |-> << >>]

NoWalk == [start |-> 0, startText |-> Empty, phase |-> "off"]

\* The dialog after onParamChange materialized a parameter: val is the
\* host's value and valText its text.
DialogInit ==
    /\ \E st \in { <<1, 1>>, <<1, 3>>, <<2, 4>> } :
         param = [min |-> 0, max |-> MaxVal, step |-> st[1], largeStep |-> st[2]]
    /\ fmt \in [0..MaxVal -> 0..NTexts]
    /\ stored \in 0..MaxVal
    /\ val = stored
    /\ valText = updateValue(val)
    /\ last = NoRequest

NavInit == DialogInit /\ walk = NoWalk

\* The same dialog with the alternating key sequence watched from its
\* first value.
WalkInit ==
    /\ DialogInit
    /\ walk = [start |-> val, startText |-> valText, phase |-> "start"]

\* ------------------------------------------------------ the parameter list
\* Ctrl+Tab without the wrap at either end.
TabTargetNoWrap(shift) == curSel + (IF shift THEN -1 ELSE 1)

\* The combo index Ctrl+Tab (shift FALSE) or Ctrl+Shift+Tab (shift TRUE)
\* asks for; visibleParams.size() - 1 is -1 for an empty list.
TabTarget(shift) ==
    LET newParam == curSel + (IF shift THEN -1 ELSE 1)
    IN  IF newParam < 0 THEN Len(visibleParams) - 1
        ELSE IF newParam = Len(visibleParams) THEN 0
        ELSE newParam

\* ComboBox_SetCurSel on a combo of n items: an index the combo does not
\* have clears the selection.
SetCurSel(i, n) == IF 0 <= i /\ i < n THEN i ELSE -1

\* ParamsDialog::onParamChange with the combo at sel over the list vis.
\* Reading vis outside its bounds yields an arbitrary number: one that
\* happens to name a catalog entry is materialized, any other leaves the
\* dialog as it was.
onParamChange(sel, vis) ==
    IF 0 <= sel /\ sel < Len(vis)
    THEN /\ paramNum' = vis[sel + 1]
         /\ materialized' = <<vis[sel + 1]>>
         /\ val' = hostVals[vis[sel + 1] + 1]
         /\ stored' = hostVals[vis[sel + 1] + 1]
         /\ valText' = updateValue(hostVals[vis[sel + 1] + 1])
         /\ fault' = fault
    ELSE /\ fault' = TRUE
         /\ \/ \E g \in 0..(paramCount - 1) :
                 /\ paramNum' = g
                 /\ materialized' = <<g>>
                 /\ val' = hostVals[g + 1]
                 /\ stored' = hostVals[g + 1]
                 /\ valText' = updateValue(hostVals[g + 1])
            \/ /\ materialized' = << >>
               /\ UNCHANGED <<paramNum, val, stored, valText>>

\* translateAccel for VK_TAB with the control key down.
TabKey(shift) ==
    /\ LET newParam == TabTarget(shift)
       IN  IF newParam >= 0
           THEN /\ curSel' = SetCurSel(newParam, Len(visibleParams))
                /\ onParamChange(SetCurSel(newParam, Len(visibleParams)),
                                 visibleParams)
           ELSE /\ materialized' = << >>
                /\ UNCHANGED <<curSel, paramNum, val, stored, valText, fault>>
    /\ lastTab' = [key |-> IF shift THEN "shifttab" ELSE "tab",
                   from |-> curSel, n |-> Len(visibleParams)]
    /\ UNCHANGED <<paramCount, hostVals, visibleParams, param, fmt, last, walk>>
    /\ UNCHANGED <<sliderEnabled, lastRebuild>>
    /\ UNCHANGED fxVars
    /\ UNCHANGED provVars
    /\ UNCHANGED auxVars

CtrlTab      == TabKey(FALSE)
CtrlShiftTab == TabKey(TRUE)

\* What updateParamList takes for the previously selected parameter.
PrevSelParam ==
    IF visibleParams = << >> THEN -1
    ELSE IF 0 <= curSel /\ curSel < Len(visibleParams)
    THEN visibleParams[curSel + 1]
    ELSE -1

\* The rebuild that always selects the first visible entry.
updateParamListSelectFirst(pass) ==
    LET Included(p) == p \in pass
        vis == SelectSeq([i \in 1..paramCount |-> i - 1], Included)
    IN  /\ visibleParams' = vis
        /\ curSel' = SetCurSel(0, Len(vis))
        /\ sliderEnabled' = (vis # << >>)
        /\ IF vis = << >>
           THEN /\ materialized' = << >>
                /\ UNCHANGED <<paramNum, val, stored, valText, fault>>
           ELSE onParamChange(SetCurSel(0, Len(vis)), vis)

\* ParamsDialog::updateParamList, pass being the catalog numbers whose
\* names shouldIncludeParam accepts.
updateParamList(pass) ==
    LET prevSelParam == PrevSelParam
        Included(p) == p \in pass
        vis == SelectSeq([i \in 1..paramCount |-> i - 1], Included)
        newComboSel == IF \E i \in 1..Len(vis) : vis[i] = prevSelParam
                       THEN (CHOOSE i \in 1..Len(vis) : vis[i] = prevSelParam) - 1
                       ELSE 0
    IN  /\ visibleParams' = vis
        /\ curSel' = SetCurSel(newComboSel, Len(vis))
        /\ sliderEnabled' = (vis # << >>)
        /\ IF vis = << >>
           THEN /\ materialized' = << >>
                /\ UNCHANGED <<paramNum, val, stored, valText, fault>>
           ELSE onParamChange(SetCurSel(newComboSel, Len(vis)), vis)

\* onFilterChange with a new filter text, or the unnamed-parameters
\* checkbox: the list is rebuilt.
FilterChange ==
    /\ \E pass \in SUBSET (0..(paramCount - 1)) :
         /\ updateParamList(pass)
         /\ lastRebuild' = [pass |-> pass, prevSelParam |-> PrevSelParam,
                            paramNum |-> paramNum]
    /\ lastTab' = [key |-> "filter", from |-> curSel, n |-> Len(visibleParams)]
    /\ UNCHANGED <<paramCount, hostVals, param, fmt, last, walk>>
    /\ UNCHANGED fxVars
    /\ UNCHANGED provVars
    /\ UNCHANGED auxVars

NoTab == [key |-> "none", from |-> -1, n |-> 0]

NoRebuild == [pass |-> {}, prevSelParam |-> -1, paramNum |-> 0]

\* The dialog as its constructor leaves it over a catalog of paramCount
\* entries: the checkbox is checked and the filter empty, so every entry is
\* visible and the first one is active.
ListInit ==
    /\ paramCount \in 1..MaxParams
    /\ hostVals \in [1..paramCount -> {0, MaxVal}]
    /\ param = [min |-> 0, max |-> MaxVal, step |-> 1, largeStep |-> 1]
    /\ fmt \in { [v \in 0..MaxVal |-> Empty],
                 [v \in 0..MaxVal |-> 1 + (v % NTexts)] }
    /\ visibleParams = [i \in 1..paramCount |-> i - 1]
    /\ curSel = 0
    /\ paramNum = 0
    /\ materialized = <<0>>
    /\ val = hostVals[1]
    /\ stored = hostVals[1]
    /\ valText = updateValue(hostVals[1])
    /\ fault = FALSE
    /\ lastTab = NoTab
    /\ sliderEnabled = TRUE
    /\ lastRebuild = NoRebuild
    /\ last = NoRequest
    /\ walk = NoWalk

\* No parameter list is tracked.
ListIdle ==
    /\ paramCount = 0
    /\ hostVals = << >>
    /\ visibleParams = << >>
    /\ curSel = -1
    /\ paramNum = 0
    /\ materialized = << >>
    /\ fault = FALSE
    /\ lastTab = NoTab
    /\ sliderEnabled = FALSE
    /\ lastRebuild = NoRebuild

\* ------------------------------------------------------ parameter providers
\* Values of type double are counted in thousandths: 4000 is 4.0, 2 is 0.002.

\* {display name, name passed to the API}
TOGGLE_FX_NAMED_CONFIG_PARAM_VALUES ==
    << <<"off", "0">>, <<"on", "1">> >>

REAEQ_BAND_TYPE_VALUES ==
    << <<"low shelf", "0">>, <<"high shelf", "1">>, <<"band", "8">>,
       <<"low pass", "3">>, <<"high pass", "4">>, <<"all pass", "5">>,
       <<"notch", "6">>, <<"band pass", "7">>, <<"parallel band pass", "10">>,
       <<"band (alt)", "9">>, <<"band (alt 2)", "2">> >>

NoParam == [kind |-> "none"]
NoSource == [kind |-> "none"]
NoOp == [name |-> "none", arg |-> 0, result |-> 0, before |-> 0,
         writes |-> << >>, built |-> << >>]

\* int(a / b) for b # 0: the quotient truncated toward zero.
Trunc(a, b) ==
    IF (a >= 0) = (b > 0) THEN (IF a >= 0 THEN a \div b ELSE (-a) \div (-b))
    ELSE -(IF a >= 0 THEN a \div (-b) ELSE (-a) \div b)

ReaperObjToggleParam ==
    [kind |-> "toggle", min |-> 0, max |-> 1000, step |-> 1000,
     largeStep |-> 1000, isEditable |-> FALSE]

\* The constructor reads the host field r through getValue with flipSign
\* still false.
ReaperObjVolParam(r) ==
    [kind |-> "vol", min |-> 0, max |-> 4000, step |-> 2, largeStep |-> 100,
     isEditable |-> TRUE, flipSign |-> (r < 0)]

ReaperObjPanParam ==
    [kind |-> "pan", min |-> -1000, max |-> 1000, step |-> 10,
     largeStep |-> 100, isEditable |-> TRUE]

ReaperObjLenParam ==
    [kind |-> "len", min |-> 0, max |-> 500000, step |-> 20,
     largeStep |-> 10000, isEditable |-> TRUE]

\* FxParam::FxParam: the fields left for the host report h of parameter num
\* of the effect at fxAddr; h.step = 0 or h.largeStep = 0 when the host
\* did not set it.  The host ranges are whole numbers, so the divisions by
\* 50 and by 1000 are exact.
FxParam(h, fxAddr, num) ==
    LET synth == Trunc(h.max - h.min, 50)
        whole == h.step * Trunc(synth, h.step)
        st == IF h.step # 0 THEN h.step ELSE Trunc(h.max - h.min, 1000)
        lg == IF h.step # 0
              THEN IF h.largeStep = 0
                   THEN (IF whole = 0 THEN h.step ELSE whole)
                   ELSE h.largeStep
              ELSE 20 * Trunc(h.max - h.min, 1000)
    IN  [kind |-> "fx", min |-> h.min, max |-> h.max, step |-> st,
         largeStep |-> lg, isEditable |-> TRUE, fx |-> fxAddr, param |-> num]

\* The named-config writes of FxParam's constructor.
FxParamWrites(fxAddr, num) ==
    << [fx |-> fxAddr, name |-> "last_touched", value |-> num],
       [fx |-> fxAddr, name |-> "focused", value |-> 1] >>

\* FxNamedConfigParam::FxNamedConfigParam: ownFx is whatever its member fx,
\* which no initializer sets, holds.
FxNamedConfigParam(dispName, cfgName, values, ownFx) ==
    [kind |-> "named", min |-> 0, max |-> (Len(values) - 1) * 1000,
     step |-> 1000, largeStep |-> 1000, isEditable |-> FALSE,
     fx |-> ownFx, displayName |-> dispName, name |-> cfgName,
     values |-> values]

\* The named-config writes of FxNamedConfigParam's constructor.
FxNamedConfigParamWrites(ownFx) ==
    << [fx |-> ownFx, name |-> "last_touched", value |-> 0],
       [fx |-> ownFx, name |-> "focused", value |-> 1] >>

\* getValue falling out of its loop with the loop counter as the result.
NamedGetValueLoopCounter(o, valueStr) ==
    IF valueStr = "" THEN 0
    ELSE IF \E v \in 1..Len(o.values) : o.values[v][2] = valueStr
    THEN 1000 * ((CHOOSE v \in 1..Len(o.values) :
                    /\ o.values[v][2] = valueStr
                    /\ \A u \in 1..(v - 1) : o.values[u][2] # valueStr) - 1)
    ELSE 1000 * Len(o.values)

\* FxNamedConfigParam::getValue for the string valueStr the query left in
\* the buffer: the ordinal of the first entry with that token, else 0.
NamedGetValue(o, valueStr) ==
    IF valueStr = "" THEN 0
    ELSE IF \E v \in 1..Len(o.values) : o.values[v][2] = valueStr
    THEN 1000 * ((CHOOSE v \in 1..Len(o.values) :
                    /\ o.values[v][2] = valueStr
                    /\ \A u \in 1..(v - 1) : o.values[u][2] # valueStr) - 1)
    ELSE 0

\* ReaperObjVolParam::getValue ignoring flipSign.
VolGetValueNoFlip(o) == raw

\* ReaperObjVolParam::getValue.
VolGetValue(o) == IF o.flipSign THEN -raw ELSE raw

\* Param::getValue; ok tells whether the host's named-config query
\* succeeded (the buffer stays "" when it does not).
getValue(o, ok) ==
    CASE o.kind = "toggle" -> IF raw # 0 THEN 1000 ELSE 0
      [] o.kind = "vol" -> VolGetValue(o)
      [] o.kind = "pan" -> raw
      [] o.kind = "len" -> raw
      [] o.kind = "named" ->
            NamedGetValue(o, IF ok THEN hostCfg[o.name] ELSE "")

\* FxNamedConfigParam::getValueText.
NamedGetValueText(o, value) == o.values[Trunc(value, 1000) + 1][1]

\* setValue passing the ordinal itself as the token.
NamedSetTokenOrdinal(o, value) ==
    <<"0", "1", "2", "3", "4", "5", "6", "7", "8", "9", "10">>
        [Trunc(value, 1000) + 1]

\* The token FxNamedConfigParam::setValue passes to the host.
NamedSetToken(o, value) == o.values[Trunc(value, 1000) + 1][2]

\* The values a dialog passes to setValue in the model.
ArgValues(o) ==
    IF o.kind = "named" THEN { 1000 * k : k \in 0..(Len(o.values) - 1) }
    ELSE { o.min, o.min + o.step, o.min + o.largeStep, o.max }

\* What the host can report for a numbered effect parameter.
HostReports ==
    [min : {0, 1000}, max : {0, 1000}, step : {0, 3, 30, 1000},
     largeStep : {0, 100}]

\* Flat indices of effects, and the values an unset int can hold.
FxAddrs == {0, 1}
AnyFx == {1, 2}

RECURSIVE initNamedConfigParams(_, _)
\* FxParams::initNamedConfigParams for a ReaEQ with so many bands; g gives
\* the unset fx member of each entry.
initNamedConfigParams(bands, g) ==
    IF bands = 0 THEN << >>
    ELSE initNamedConfigParams(bands - 1, g) \o
         << FxNamedConfigParam("Band enable", <<"BANDENABLED", bands - 1>>,
                               TOGGLE_FX_NAMED_CONFIG_PARAM_VALUES,
                               g[2 * bands - 1]),
            FxNamedConfigParam("Band type", <<"BANDTYPE", bands - 1>>,
                               REAEQ_BAND_TYPE_VALUES, g[2 * bands]) >>

RECURSIVE Flatten(_)
Flatten(ss) == IF ss = << >> THEN << >> ELSE Head(ss) \o Flatten(Tail(ss))

\* FxParams::FxParams over the effect at fxAddr, which is a ReaEQ with
\* bands bands or (isReaEq FALSE) another effect, with numParams numbered
\* parameters.
ConstructSource ==
    /\ \E fxAddr \in FxAddrs, isReaEq \in BOOLEAN, bands \in 0..MaxBands,
          numParams \in 0..MaxParams, g \in [1..(2 * MaxBands) -> AnyFx] :
         LET named == IF isReaEq THEN initNamedConfigParams(bands, g)
                      ELSE << >>
         IN  /\ isReaEq \/ bands = 0
             /\ \A i \in 1..(2 * MaxBands) : i > Len(named) => g[i] = 1
             /\ source' = [kind |-> "fx", fx |-> fxAddr,
                           namedConfigParams |-> named,
                           numParams |-> numParams]
             /\ op' = [name |-> "construct", arg |-> fxAddr, result |-> 0,
                       before |-> raw,
                       writes |-> Flatten([i \in 1..Len(named) |->
                                    FxNamedConfigParamWrites(named[i].fx)]),
                       built |-> [i \in 1..Len(named) |-> "named"]]
    /\ obj' = NoParam
    /\ UNCHANGED <<raw, hostCfg>>
    /\ UNCHANGED <<fxVars, navVars, listVars>>
    /\ UNCHANGED auxVars

\* getTitle, getParamCount and getParamName(p) for every p.
ReadCatalog ==
    /\ source.kind = "fx"
    /\ op' = [name |-> "read", arg |-> 0,
              result |-> Len(source.namedConfigParams) + source.numParams,
              before |-> raw, writes |-> << >>, built |-> << >>]
    /\ UNCHANGED <<source, obj, raw, hostCfg>>
    /\ UNCHANGED <<fxVars, navVars, listVars>>
    /\ UNCHANGED auxVars

\* FxParams::getParam(p), as onParamChange calls it for the selected entry;
\* op.result keeps the host report a numbered parameter was built from.
GetParam ==
    /\ source.kind = "fx"
    /\ \E p \in 0..(Len(source.namedConfigParams) + source.numParams - 1),
          h \in HostReports :
         LET namedCount == Len(source.namedConfigParams)
         IN  IF p < namedCount
             THEN /\ obj' = source.namedConfigParams[p + 1]
                  /\ op' = [name |-> "getParam", arg |-> p, result |-> 0,
                            before |-> raw, writes |-> << >>,
                            built |-> << >>]
             ELSE /\ obj' = FxParam(h, source.fx, p - namedCount)
                  /\ op' = [name |-> "getParam", arg |-> p, result |-> h,
                            before |-> raw,
                            writes |-> FxParamWrites(source.fx, p - namedCount),
                            built |-> <<"fx">>]
    /\ UNCHANGED <<source, raw, hostCfg>>
    /\ UNCHANGED <<fxVars, navVars, listVars>>
    /\ UNCHANGED auxVars

\* ReaperObjParamSource::getParam: a track, item or take parameter.
ReaperObjGetParam ==
    /\ \E k \in {"toggle", "vol", "pan", "len"} :
         /\ obj' = CASE k = "toggle" -> ReaperObjToggleParam
                     [] k = "vol" -> ReaperObjVolParam(raw)
                     [] k = "pan" -> ReaperObjPanParam
                     [] k = "len" -> ReaperObjLenParam
         /\ op' = [name |-> "getParam", arg |-> 0, result |-> 0,
                   before |-> raw, writes |-> << >>, built |-> <<k>>]
    /\ source' = [kind |-> "reaperObj"]
    /\ UNCHANGED <<raw, hostCfg>>
    /\ UNCHANGED <<fxVars, navVars, listVars>>
    /\ UNCHANGED auxVars

\* Param::getValue on the materialized Param.
GetValue ==
    /\ obj.kind \in {"toggle", "vol", "pan", "len", "named"}
    /\ \E ok \in BOOLEAN :
         op' = [name |-> "getValue", arg |-> ok, result |-> getValue(obj, ok),
                before |-> raw, writes |-> << >>, built |-> << >>]
    /\ UNCHANGED <<source, obj, raw, hostCfg>>
    /\ UNCHANGED <<fxVars, navVars, listVars>>
    /\ UNCHANGED auxVars

\* Param::setValue(value) on the materialized Param; the host keeps the
\* named-config token it is given.  op.result is getValue() before the
\* write.
SetValue ==
    /\ obj.kind \in {"toggle", "vol", "pan", "len", "named"}
    /\ \E value \in ArgValues(obj) \cup {getValue(obj, TRUE)} :
         /\ raw' = CASE obj.kind = "toggle" -> IF value # 0 THEN 1000 ELSE 0
                     [] obj.kind = "vol" ->
                            IF obj.flipSign THEN -value ELSE value
                     [] obj.kind \in {"pan", "len"} -> value
                     [] obj.kind = "named" -> raw
         /\ hostCfg' = IF obj.kind = "named"
                       THEN [hostCfg EXCEPT ![obj.name] =
                                NamedSetToken(obj, value)]
                       ELSE hostCfg
         /\ op' = [name |-> "setValue", arg |-> value,
                   result |-> getValue(obj, TRUE), before |-> raw,
                   writes |-> IF obj.kind = "named"
                              THEN << [fx |-> source.fx, name |-> obj.name,
                                       value |-> NamedSetToken(obj, value)] >>
                              ELSE << >>,
                   built |-> << >>]
    /\ UNCHANGED <<source, obj>>
    /\ UNCHANGED <<fxVars, navVars, listVars>>
    /\ UNCHANGED auxVars

\* No source has been constructed.
ProvIdle ==
    /\ source = NoSource
    /\ obj = NoParam
    /\ raw = 0
    /\ hostCfg = << >>
    /\ op = NoOp

\* Before a parameters command: the host field behind a track, item or
\* take parameter holds any of some values.
CtorInit ==
    /\ source = NoSource
    /\ obj = NoParam
    /\ raw \in {-1000, 1000}
    /\ hostCfg = << >>
    /\ op = NoOp

\* The tokens the host can hold for a named-config parameter: those of the
\* tables, one no table has, and none.
HostTokens == {"0", "1", "2", "3", "4", "5", "6", "7", "8", "9", "10", "?", ""}

\* A Param just materialized over its host backing.
AccInit ==
    /\ \/ /\ source = [kind |-> "reaperObj"]
          /\ hostCfg = << >>
          /\ \/ raw \in {0, 1000} /\ obj = ReaperObjToggleParam
             \/ raw \in {-4000, -1000, -2, 0, 2, 1000, 4000}
                /\ obj = ReaperObjVolParam(raw)
             \/ raw \in {-1000, 0, 10, 1000} /\ obj = ReaperObjPanParam
             \/ raw \in {0, 20, 500000} /\ obj = ReaperObjLenParam
       \/ /\ raw = 0
          /\ \E fxAddr \in FxAddrs, i \in 1..2, t \in HostTokens :
               LET named == initNamedConfigParams(1, <<2, 2>>)
               IN  /\ source = [kind |-> "fx", fx |-> fxAddr,
                                namedConfigParams |-> named, numParams |-> 0]
                   /\ obj = named[i]
                   /\ hostCfg = [n \in {named[1].name, named[2].name} |->
                                    IF n = named[i].name THEN t ELSE "0"]
    /\ op = NoOp

\* ----------------------------------------------------------- the edit box
\* What the value edit box can hold: nothing, text atof reads as 0, or a
\* number written short ("2") or with four decimals ("2.0000").
EditTexts ==
    { [kind |-> "empty", v |-> 0, fixed |-> FALSE],
      [kind |-> "junk", v |-> 0, fixed |-> FALSE] } \cup
    [kind : {"num"}, v : (-1)..(MaxVal + 1), fixed : BOOLEAN]

NoText == [kind |-> "none", v |-> 0, fixed |-> FALSE]

\* FxParam::getValueForEditing: the host's value with four decimals.
getValueForEditing == [kind |-> "num", v |-> stored, fixed |-> TRUE]

\* atof on the text of the edit box.
atof(text) == IF text.kind = "num" THEN text.v ELSE 0

\* onValueEdited refusing a value outside [min, max].
onValueEditedInRange(text) ==
    IF text.kind = "empty" THEN << >>
    ELSE IF text = getValueForEditing THEN << >>
    ELSE IF atof(text) < param.min \/ atof(text) > param.max THEN << >>
    ELSE <<atof(text)>>

\* ParamsDialog::onValueEdited: the values passed to Param::setValue through
\* setValueFromEdited.
onValueEdited(text) ==
    IF text.kind = "empty" THEN << >>
    ELSE IF text = getValueForEditing THEN << >>
    ELSE <<atof(text)>>

\* What the host leaves in its store when _SetParam is given v: v itself,
\* v clamped to the parameter's range, or the old value.
HostSetParam(v) ==
    { v,
      IF v < param.min THEN param.min ELSE IF v > param.max THEN param.max
      ELSE v,
      stored }

\* EN_KILLFOCUS of the value edit box.
ValueEdited ==
    /\ \E text \in EditTexts :
         LET w == onValueEdited(text)
         IN  /\ IF w = << >>
                THEN UNCHANGED <<stored, val, valText>>
                ELSE \E s \in HostSetParam(w[1]) :
                        /\ stored' = s
                        /\ val' = s
                        /\ valText' = updateValue(s)
             /\ lastEdit' = [text |-> text, editing |-> getValueForEditing,
                             from |-> val, fromText |-> valText,
                             stored |-> stored, written |-> w]
    /\ UNCHANGED <<param, fmt, last, walk>>
    /\ UNCHANGED <<fxVars, listVars, provVars, iterHist>>
    /\ UNCHANGED timerVars
    /\ UNCHANGED cmdVars
    /\ UNCHANGED lenVars

NoEdit == [text |-> NoText, editing |-> NoText, from |-> 0,
           fromText |-> Empty, stored |-> 0, written |-> << >>]

\* The dialog over an editable effect parameter; the host formats values
\* one step outside the range too.
EditInit ==
    /\ \E st \in { <<1, 1>>, <<2, 4>> } :
         param = [min |-> 0, max |-> MaxVal, step |-> st[1], largeStep |-> st[2]]
    /\ fmt \in { [v \in (-1)..(MaxVal + 1) |-> Empty],
                 [v \in (-1)..(MaxVal + 1) |-> 1 + (v % NTexts)],
                 [v \in (-1)..(MaxVal + 1) |-> IF v < 0 THEN Empty ELSE 1] }
    /\ stored \in 0..MaxVal
    /\ val = stored
    /\ valText = updateValue(val)
    /\ last = NoRequest
    /\ walk = NoWalk
    /\ lastEdit = NoEdit

\* ------------------------------------------- the delayed bypass report
NoRequests == [reqs |-> 0, fires |-> 0, reports |-> 0, firstFireReqs |-> 0,
               unfocusedSeen |-> FALSE, last |-> "none"]

\* KillTimer(nullptr, id): the host forgets the timer; an id it does not
\* know changes nothing.
KillTimer(timers, id) == timers \ {id}

\* maybeReportFxChainBypass(false): one report when the FX list is focused.
maybeReportFxChainBypass == IF fxListFocused THEN 1 ELSE 0

\* The callback without its KillTimer call.
TimerCallbackNoKill(timers, event) ==
    [timers |-> timers, handle |-> 0, reported |-> maybeReportFxChainBypass]

\* The timer callback: kills the timer that fired, clears the handle and
\* reports.
TimerCallback(timers, event) ==
    [timers |-> KillTimer(timers, event), handle |-> 0,
     reported |-> maybeReportFxChainBypass]

\* maybeReportFxChainBypassDelayed.
BypassRequest ==
    /\ bypassHist.reqs < MaxRequests
    /\ LET killed == IF reportFxChainBypassTimer # 0
                     THEN KillTimer(hostTimers, reportFxChainBypassTimer)
                     ELSE hostTimers
       IN  IF ~fxListFocused
           THEN /\ hostTimers' = killed
                /\ UNCHANGED reportFxChainBypassTimer
                /\ bypassHist' = [bypassHist EXCEPT !.reqs = @ + 1,
                                                    !.last = "declined"]
           ELSE \E id \in (1..MaxTimerId) \ killed :
                   /\ hostTimers' = killed \cup {id}
                   /\ reportFxChainBypassTimer' = id
                   /\ bypassHist' = [bypassHist EXCEPT !.reqs = @ + 1,
                                                       !.last = "scheduled"]
    /\ UNCHANGED fxListFocused
    /\ UNCHANGED <<fxVars, navVars, listVars, provVars, lastEdit, iterHist>>
    /\ UNCHANGED cmdVars
    /\ UNCHANGED lenVars

\* The host's timer runs out (and would again, a second later, if it were
\* not killed) and the host calls the callback.
TimerFire ==
    /\ bypassHist.fires <= MaxRequests
    /\ \E event \in hostTimers :
         LET c == TimerCallback(hostTimers, event)
         IN  /\ hostTimers' = c.timers
             /\ reportFxChainBypassTimer' = c.handle
             /\ bypassHist' =
                   [bypassHist EXCEPT
                      !.fires = @ + 1,
                      !.reports = @ + c.reported,
                      !.firstFireReqs = IF bypassHist.fires = 0
                                        THEN bypassHist.reqs ELSE @,
                      !.last = "fired"]
    /\ UNCHANGED fxListFocused
    /\ UNCHANGED <<fxVars, navVars, listVars, provVars, lastEdit, iterHist>>
    /\ UNCHANGED cmdVars
    /\ UNCHANGED lenVars

\* The user moves the focus into or out of the FX list.
FocusChange ==
    /\ fxListFocused' = ~fxListFocused
    /\ bypassHist' = [bypassHist EXCEPT !.unfocusedSeen = TRUE,
                                        !.last = "focus"]
    /\ UNCHANGED <<reportFxChainBypassTimer, hostTimers>>
    /\ UNCHANGED <<fxVars, navVars, listVars, provVars, lastEdit, iterHist>>
    /\ UNCHANGED cmdVars
    /\ UNCHANGED lenVars

TimerInit ==
    /\ reportFxChainBypassTimer = 0
    /\ hostTimers = {}
    /\ fxListFocused \in BOOLEAN
    /\ bypassHist = [NoRequests EXCEPT !.unfocusedSeen = ~fxListFocused]

\* No report has been asked for.
TimerIdle ==
    /\ reportFxChainBypassTimer = 0
    /\ hostTimers = {}
    /\ fxListFocused = FALSE
    /\ bypassHist = NoRequests

\* ----------------------------------- the commands and the dialog's lifetime
\* Window handles: nullptr, REAPER's main window, an FX chain window and the
\* window of dialog object i; InvalidWnd is a value that is no window.
NullWnd == 0
MainWnd == 1
FxChainWnd == 2
InvalidWnd == -1
DlgWnd(i) == FxChainWnd + i

\* The process state the constructor and destructor work on.
Proc == [open |-> isParamsDialogOpen, dialogs |-> dialogs, accels |-> accels,
         focus |-> hostFocus]

Windows(p) == {MainWnd, FxChainWnd} \cup { DlgWnd(i) : i \in DOMAIN p.dialogs }

\* The WM_ACTIVATE handler without its test of isDestroying.
OnInactiveAlways(d, isDestroying) ==
    [prevFocus |-> NullWnd, closePosted |-> TRUE]

\* dialogProc on WM_ACTIVATE with WA_INACTIVE for the dialog whose fields
\* are d: unless it is being destroyed, prevFocus = nullptr and a WM_CLOSE
\* is posted.
OnInactive(d, isDestroying) ==
    IF ~isDestroying THEN [prevFocus |-> NullWnd, closePosted |-> TRUE]
    ELSE d

\* The dialogs after the window w lost the activation to another one.
Deactivated(ds, w) ==
    [i \in DOMAIN ds |->
        IF DlgWnd(i) = w THEN OnInactive(ds[i], FALSE) ELSE ds[i]]

\* SetFocus: a handle that is no window changes nothing; otherwise the
\* window that had the focus is deactivated.
SetFocus(p, w) ==
    IF w \in Windows(p) /\ w # p.focus
    THEN [p EXCEPT !.focus = w, !.dialogs = Deactivated(p.dialogs, p.focus)]
    ELSE p

\* ~ParamsDialog for object i whose prevFocus field holds prev.
Destructor(p, i, prev) ==
    LET q == [p EXCEPT !.accels = @ \ {i}, !.open = FALSE]
    IN  IF prev # NullWnd THEN SetFocus(q, prev) ELSE q

\* ParamsDialog::ParamsDialog for a new object i over a catalog of cnt
\* entries.  With cnt = 0 the destructor runs on the object as allocated:
\* no member initializer has given prevFocus a value, garbage is what it
\* holds.
Constructor(p, i, cnt, garbage) ==
    IF cnt = 0 THEN Destructor(p, i, garbage)
    ELSE LET made == [j \in DOMAIN p.dialogs \cup {i} |->
                        IF j = i
                        THEN [prevFocus |-> p.focus, closePosted |-> FALSE]
                        ELSE p.dialogs[j]]
         IN  [open |-> TRUE,
              dialogs |-> Deactivated(made, p.focus),
              accels |-> p.accels \cup {i},
              focus |-> DlgWnd(i)]

\* The fields of dialog i when `delete dialog` runs: isDestroying is set
\* and DestroyWindow has deactivated the window if it was the active one.
AtDelete(p, i) ==
    IF p.focus = DlgWnd(i) THEN OnInactive(p.dialogs[i], TRUE)
    ELSE p.dialogs[i]

\* IDCANCEL or WM_CLOSE on dialog i: isDestroying = true, DestroyWindow (the
\* activation falls to the main window, the window's posted messages go
\* with it), delete dialog.
DestroyDialog(p, i) ==
    LET gone == [j \in DOMAIN p.dialogs \ {i} |-> p.dialogs[j]]
        q == [p EXCEPT !.dialogs = gone,
                       !.focus = IF @ = DlgWnd(i) THEN MainWnd ELSE @]
    IN  Destructor(q, i, AtDelete(p, i).prevFocus)

\* getFocusedFx with the test of `param & 1` left out.
getFocusedFxAnyOpen(s) == s.focusedFx # "none"

\* getFocusedFx: false when the host has no focused FX or reports it open but
\* no longer focused.
getFocusedFx(s) == s.focusedFx \in {"track", "take"}

\* What the fake focus resolves to in cmdParamsFocus.
ParamsSubject(s) ==
    IF s.fakeFocus = "track" /\ s.lastTouchedTrack THEN "track"
    ELSE IF s.fakeFocus = "item" /\ s.selectedItem THEN "item"
    ELSE "none"

\* What the fake focus resolves to in cmdFxParamsFocus.
FxParamsSubject(s) ==
    IF s.fakeFocus = "track" /\ s.lastTouchedTrack THEN "track"
    ELSE IF s.fakeFocus = "item" /\ s.selectedItem /\ s.activeTake THEN "take"
    ELSE "none"

Subjects ==
    [focusedFx : {"none", "unfocused", "track", "take"},
     fakeFocus : {"track", "item", "other"},
     lastTouchedTrack : BOOLEAN, selectedItem : BOOLEAN, activeTake : BOOLEAN]

NoCmd == [cmd |-> "none", ctor |-> << >>, menu |-> FALSE, writes |-> FALSE,
          garbage |-> NullWnd, before |-> [open |-> FALSE, dialogs |-> << >>,
                                           accels |-> {}, focus |-> MainWnd]]

\* The values an uninitialized HWND member can hold.
Garbage(p) == {NullWnd, InvalidWnd} \cup Windows(p)

FreeIds == (1..MaxDialogs) \ DOMAIN dialogs

\* `new ParamsDialog(source)` as the last statement of a command; an FX
\* source's Param objects may write to the host while the list is built.
NewParamsDialog(cmd, counts, menu, fxSource) ==
    \E i \in FreeIds, cnt \in counts :
    \E g \in IF cnt = 0 THEN Garbage(Proc) ELSE {NullWnd},
       w \in IF fxSource /\ cnt # 0 THEN BOOLEAN ELSE {FALSE} :
        LET q == Constructor(Proc, i, cnt, g)
        IN  /\ isParamsDialogOpen' = q.open
            /\ dialogs' = q.dialogs
            /\ accels' = q.accels
            /\ hostFocus' = q.focus
            /\ cmdHist' = [cmd |-> cmd, ctor |-> <<cnt>>, menu |-> menu,
                           writes |-> w, garbage |-> g, before |-> Proc]

\* A command that returns without constructing anything.
NoDialog(cmd, menu) ==
    /\ cmdHist' = [cmd |-> cmd, ctor |-> << >>, menu |-> menu,
                   writes |-> FALSE, garbage |-> NullWnd, before |-> Proc]
    /\ UNCHANGED <<isParamsDialogOpen, dialogs, accels, hostFocus>>

CmdParamsFocus ==
    /\ FreeIds # {}
    /\ IF getFocusedFx(subject)
       THEN NewParamsDialog("params", 0..1, FALSE, TRUE)
       ELSE IF ParamsSubject(subject) = "none"
       THEN NoDialog("params", FALSE)
       ELSE NewParamsDialog("params", {1}, FALSE, FALSE)
    /\ UNCHANGED subject
    /\ UNCHANGED <<fxVars, navVars, listVars, provVars, lastEdit, iterHist>>
    /\ UNCHANGED timerVars
    /\ UNCHANGED lenVars

\* cmdFxParamsFocus; fxParams_begin ends with "no FX", with the menu
\* cancelled, or with a dialog over the chosen or the only effect.
CmdFxParamsFocus ==
    /\ FreeIds # {}
    /\ IF FxParamsSubject(subject) = "none"
       THEN NoDialog("fxParams", FALSE)
       ELSE \/ NoDialog("fxParams", FALSE)
            \/ NoDialog("fxParams", TRUE)
            \/ \E menu \in BOOLEAN :
                  NewParamsDialog("fxParams", 0..1, menu, TRUE)
    /\ UNCHANGED subject
    /\ UNCHANGED <<fxVars, navVars, listVars, provVars, lastEdit, iterHist>>
    /\ UNCHANGED timerVars
    /\ UNCHANGED lenVars

\* dialogProc destroying dialog i on IDCANCEL or WM_CLOSE.
CloseDialogOf(i) ==
    /\ LET q == DestroyDialog(Proc, i)
       IN  /\ isParamsDialogOpen' = q.open
           /\ dialogs' = q.dialogs
           /\ accels' = q.accels
           /\ hostFocus' = q.focus
           /\ cmdHist' = [cmd |-> "close", ctor |-> << >>, menu |-> FALSE,
                          writes |-> FALSE, garbage |-> NullWnd,
                          before |-> Proc]
    /\ UNCHANGED subject
    /\ UNCHANGED <<fxVars, navVars, listVars, provVars, lastEdit, iterHist>>
    /\ UNCHANGED timerVars
    /\ UNCHANGED lenVars

\* The message loop hands dialog i the WM_CLOSE it posted to itself.
PostedClose(i) ==
    /\ i \in DOMAIN dialogs
    /\ dialogs[i].closePosted
    /\ CloseDialogOf(i)

\* Escape in the dialog that has the focus, or a posted WM_CLOSE arriving.
CloseDialog ==
    /\ \E i \in DOMAIN dialogs :
         /\ hostFocus = DlgWnd(i) \/ dialogs[i].closePosted
         /\ CloseDialogOf(i)

\* Another window takes the focus: the user clicks it or the host moves on.
FocusSteal ==
    /\ \E w \in Windows(Proc) \ {hostFocus} :
         LET q == SetFocus(Proc, w)
         IN  /\ dialogs' = q.dialogs
             /\ hostFocus' = q.focus
             /\ cmdHist' = [cmd |-> "focus", ctor |-> << >>, menu |-> FALSE,
                            writes |-> FALSE, garbage |-> NullWnd,
                            before |-> Proc]
    /\ UNCHANGED <<isParamsDialogOpen, accels, subject>>
    /\ UNCHANGED <<fxVars, navVars, listVars, provVars, lastEdit, iterHist>>
    /\ UNCHANGED timerVars
    /\ UNCHANGED lenVars

CmdInit ==
    /\ isParamsDialogOpen = FALSE
    /\ dialogs = << >>
    /\ accels = {}
    /\ hostFocus \in {MainWnd, FxChainWnd}
    /\ subject \in Subjects
    /\ cmdHist = [NoCmd EXCEPT !.before.focus = hostFocus]

\* No command has been given.
CmdIdle ==
    /\ isParamsDialogOpen = FALSE
    /\ dialogs = << >>
    /\ accels = {}
    /\ hostFocus = MainWnd
    /\ subject = [focusedFx |-> "none", fakeFocus |-> "other",
                  lastTouchedTrack |-> FALSE, selectedItem |-> FALSE,
                  activeTake |-> FALSE]
    /\ cmdHist = NoCmd

\* ------------------------------------------- the text of a length parameter
\* formatTime(value, TF_RULER, true) when the text of its previous call was
\* cache: nothing when the text is the same.
formatTime(cache, value) ==
    IF timeText[value] = cache THEN Empty ELSE timeText[value]

\* getValueText handing on what the formatter returned.
LenGetValueTextNoCache(prevText, cache, value) ==
    [text |-> formatTime(cache, value), lastText |-> prevText]

\* ReaperObjLenParam::getValueText with lastText holding prevText: the text it
\* returns and the lastText it leaves.
LenGetValueText(prevText, cache, value) ==
    LET text == formatTime(cache, value)
    IN  IF text = Empty THEN [text |-> prevText, lastText |-> prevText]
        ELSE [text |-> text, lastText |-> text]

NoLenCall == [value |-> -1, text |-> Empty, formatted |-> Empty]

\* ReaperObjLenParam::ReaperObjLenParam: resetTimeCache(); lastText, a
\* function-static, keeps what an earlier Param left in it.
LenConstruct ==
    /\ timeCache' = Empty
    /\ lenHist' = NoLenCall
    /\ UNCHANGED <<lastText, timeText>>
    /\ UNCHANGED <<fxVars, navVars, listVars, provVars, lastEdit, iterHist>>
    /\ UNCHANGED timerVars
    /\ UNCHANGED cmdVars

\* A getValueText call on the Param.
LenGetText ==
    /\ \E value \in DOMAIN timeText :
         LET r == LenGetValueText(lastText, timeCache, value)
         IN  /\ lastText' = r.lastText
             /\ timeCache' = timeText[value]
             /\ lenHist' = [value |-> value, text |-> r.text,
                             formatted |-> formatTime(timeCache, value)]
    /\ UNCHANGED timeText
    /\ UNCHANGED <<fxVars, navVars, listVars, provVars, lastEdit, iterHist>>
    /\ UNCHANGED timerVars
    /\ UNCHANGED cmdVars

\* A Param just constructed; the static may hold any text, or none when no
\* length parameter was shown before.
LenInit ==
    /\ timeText \in [0..MaxVal -> 1..NTexts]
    /\ lastText \in {Empty} \cup (1..NTexts)
    /\ timeCache = Empty
    /\ lenHist = NoLenCall

\* No length parameter is shown.
LenIdle ==
    /\ timeText = << >>
    /\ lastText = Empty
    /\ timeCache = Empty
    /\ lenHist = NoLenCall

\* Nothing has been typed.
AuxIdle ==
    /\ lastEdit = NoEdit
    /\ iterHist = NoCalls
    /\ TimerIdle
    /\ CmdIdle
    /\ LenIdle

\* ------------------------------------------------------- the specifications
\* No dialog is open while the effect menu is being built.
NavIdle ==
    /\ param = [min |-> 0, max |-> 1, step |-> 1, largeStep |-> 1]
    /\ fmt = [v \in 0..1 |-> Empty]
    /\ stored = 0
    /\ val = 0
    /\ valText = Empty
    /\ last = NoRequest
    /\ walk = NoWalk

\* A subject without effects, and no traversal running.
FxIdle ==
    /\ isTrack = FALSE
    /\ fxTree = << >>
    /\ recTree = << >>
    /\ FxBegin

InitFx == FxInit /\ NavIdle /\ ListIdle /\ ProvIdle /\ AuxIdle
NextFx == FxLoopYield \/ FxLoopExit \/ FxMenuChoice
SpecFx == InitFx /\ [][NextFx]_vars

InitNav == NavInit /\ FxIdle /\ ListIdle /\ ProvIdle /\ AuxIdle
NextNav == KeyUp \/ KeyDown \/ KeyPageUp \/ KeyPageDown \/ KeyHome \/ KeyEnd
SpecNav == InitNav /\ [][NextNav]_vars

\* Arrow keys only, watched from the first value of the dialog.
InitWalk == WalkInit /\ FxIdle /\ ListIdle /\ ProvIdle /\ AuxIdle
NextWalk == KeyUp \/ KeyDown
SpecWalk == InitWalk /\ [][NextWalk]_vars

\* The parameter list of an open dialog: list keys and filter changes.
InitList == ListInit /\ FxIdle /\ ProvIdle /\ AuxIdle
NextList == CtrlTab \/ CtrlShiftTab \/ FilterChange
SpecList == InitList /\ [][NextList]_vars

\* Sources being constructed and asked for their parameters.
InitCtor == CtorInit /\ FxIdle /\ NavIdle /\ ListIdle /\ AuxIdle
NextCtor == ConstructSource \/ ReadCatalog \/ GetParam \/ ReaperObjGetParam
SpecCtor == InitCtor /\ [][NextCtor]_vars

\* A materialized Param being read and written.
InitAcc == AccInit /\ FxIdle /\ NavIdle /\ ListIdle /\ AuxIdle
NextAcc == GetValue \/ SetValue
SpecAcc == InitAcc /\ [][NextAcc]_vars

\* The value edit box of an open dialog.
InitEdit ==
    /\ EditInit /\ FxIdle /\ ListIdle /\ ProvIdle
    /\ iterHist = NoCalls /\ TimerIdle /\ CmdIdle /\ LenIdle
NextEdit == ValueEdited
SpecEdit == InitEdit /\ [][NextEdit]_vars

\* An FxIterator whose next() is called again and again.
InitIter == FxInit /\ NavIdle /\ ListIdle /\ ProvIdle /\ AuxIdle
NextIter == IterNext \/ IterNextExhausted
SpecIter == InitIter /\ [][NextIter]_vars

\* Requests for the delayed bypass report, timer firings and focus changes.
InitTimer ==
    /\ TimerInit /\ FxIdle /\ NavIdle /\ ListIdle /\ ProvIdle
    /\ lastEdit = NoEdit /\ iterHist = NoCalls /\ CmdIdle /\ LenIdle
NextTimer == BypassRequest \/ TimerFire \/ FocusChange
SpecTimer == InitTimer /\ [][NextTimer]_vars

\* The two focus commands and the dialogs they open.
InitCmd ==
    /\ CmdInit /\ FxIdle /\ NavIdle /\ ListIdle /\ ProvIdle
    /\ lastEdit = NoEdit /\ iterHist = NoCalls /\ TimerIdle /\ LenIdle
NextCmd == CmdParamsFocus \/ CmdFxParamsFocus \/ CloseDialog
SpecCmd == InitCmd /\ [][NextCmd]_vars

\* The dialogs' lifetime: commands given with an FX focused and a track
\* touched, closes, and focus moving between the windows.
InitLife ==
    /\ InitCmd
    /\ subject = [focusedFx |-> "track", fakeFocus |-> "track",
                  lastTouchedTrack |-> TRUE, selectedItem |-> FALSE,
                  activeTake |-> FALSE]
NextLife == CmdParamsFocus \/ CmdFxParamsFocus \/ CloseDialog \/ FocusSteal
SpecLife == InitLife /\ [][NextLife]_vars

\* The same with the host's message loop delivering every posted WM_CLOSE.
SpecLifeFair ==
    SpecLife /\ \A i \in 1..MaxDialogs : WF_vars(PostedClose(i))

\* getValueText calls on length parameters, each constructed before use.
InitLen ==
    /\ LenInit /\ FxIdle /\ NavIdle /\ ListIdle /\ ProvIdle
    /\ lastEdit = NoEdit /\ iterHist = NoCalls /\ TimerIdle /\ CmdIdle
NextLen == LenConstruct \/ LenGetText
SpecLen == InitLen /\ [][NextLen]_vars

\* ---------------------------------------------------------------- claims
RECURSIVE PreOrder(_, _)
\* The paths of forest f in depth-first pre-order, each prefixed by pre.
PreOrder(f, pre) ==
    IF f = << >> THEN << >>
    ELSE LET n == Len(f)
             RECURSIVE From(_)
             From(i) == IF i > n THEN << >>
                        ELSE <<Append(pre, i)>> \o PreOrder(f[i], Append(pre, i))
                             \o From(i + 1)
         IN  From(1)

IsNormal(y) == ~y.rec
IsRec(y) == y.rec
NormalYields == SelectSeq(yields, IsNormal)
RecYields == SelectSeq(yields, IsRec)
NormalOrder == PreOrder(fxTree, << >>)
RecOrder == PreOrder(recTree, << >>)

\* C1: the successful next() calls visit the normal tree in depth-first
\* pre-order, each node once, and getLevel() at each yield is the node's
\* nesting depth; the traversal leaves the normal tree only when all of it
\* has been yielded.
C1_PreOrder ==
    /\ Len(NormalYields) <= Len(NormalOrder)
    /\ \A i \in 1..Len(NormalYields) :
         /\ NormalYields[i].path = NormalOrder[i]
         /\ NormalYields[i].level = Len(NormalOrder[i])
    /\ (rec \/ pc # "loop") => Len(NormalYields) = Len(NormalOrder)

\* [A, B(container: [C, D]), E] traversed to the end: A, B, C, D, E with
\* levels 1, 1, 2, 2, 1.
C1_Witness ==
    /\ fxTree = << << >>, << << >>, << >> >>, << >> >>
    /\ pc # "loop"
    /\ [i \in 1..Len(NormalYields) |-> NormalYields[i].level] = <<1, 1, 2, 2, 1>>
    /\ [i \in 1..Len(NormalYields) |-> NormalYields[i].path]
         = << <<1>>, <<2>>, <<2, 1>>, <<2, 2>>, <<3>> >>

\* C2: every yielded flat index, decoded by the host's addressing scheme,
\* resolves to the node the iterator stands on (same tree, same path).
C2_DecodeAgrees ==
    \A i \in 1..Len(yields) :
        HostResolve(yields[i].fx) =
            [ok |-> TRUE, rec |-> yields[i].rec, path |-> yields[i].path]

\* C3: within one traversal no two yields carry the same flat index, and
\* no yielded index is negative.
C3_Injective ==
    /\ \A i \in 1..Len(yields) : yields[i].fx >= 0
    /\ \A i, j \in 1..Len(yields) : i # j => yields[i].fx # yields[j].fx

\* Nested nodes of both trees have been yielded in one traversal.
C3_Witness ==
    /\ \E i \in 1..Len(yields) : yields[i].rec /\ yields[i].level >= 2
    /\ \E i \in 1..Len(yields) : ~yields[i].rec /\ yields[i].level >= 3
    /\ pc = "done"

RECURSIVE LevelMultiplier(_, _, _)
\* The product of (sibling count + 1) over the levels above depth d on
\* path p of forest f.
LevelMultiplier(f, p, d) ==
    IF d <= 1 THEN 1
    ELSE (Len(f) + 1) * LevelMultiplier(f[Head(p)], Tail(p), d - 1)

\* The flat index the parent container of yield k was yielded with.
ParentIndex(k) ==
    LET y == yields[k]
        j == CHOOSE j \in 1..(k - 1) :
                 /\ yields[j].rec = y.rec
                 /\ yields[j].path = Front(y.path)
    IN  yields[j].fx

\* C4: each yielded index follows the stated formula, computed here from
\* the tree and from the indices yielded earlier.
C4_Formula ==
    \A k \in 1..Len(yields) :
        LET y    == yields[k]
            L    == y.level
            base == IF y.rec THEN RecOffset ELSE 0
            tree == IF y.rec THEN recTree ELSE fxTree
        IN  IF L = 1 THEN y.fx = base + (y.path[1] - 1)
            ELSE y.fx = base
                        + ((y.path[L] - 1) + 1) * LevelMultiplier(tree, y.path, L)
                        + (IF L = 2 THEN ContainerFlag + (y.path[1] - 1) + 1
                           ELSE ParentIndex(k))

\* A node below a nested container has been yielded in each tree.
C4_Witness ==
    /\ \E i \in 1..Len(yields) : yields[i].rec /\ yields[i].level = 3
    /\ \E i \in 1..Len(yields) : ~yields[i].rec /\ yields[i].level = 3

\* C5: a take never yields a rec-tree node; on a track the rec tree is
\* entered only once the normal tree is finished, no normal node follows a
\* rec node, and at the end every rec-tree node has been yielded once.
C5_RecTree ==
    /\ (~isTrack) => RecYields = << >>
    /\ \A i, j \in 1..Len(yields) :
         (i < j /\ yields[i].rec) => yields[j].rec
    /\ RecYields # << >> => Len(NormalYields) = Len(NormalOrder)
    /\ (isTrack /\ pc # "loop") =>
         [i \in 1..Len(RecYields) |-> RecYields[i].path] = RecOrder

\* C6: a subject without any effect yields nothing: the first next() returns
\* false, and fxParams_begin reports "no FX", shows no menu, opens no dialog.
C6_NoFx ==
    (fxTree = << >> /\ recTree = << >>) =>
        /\ yields = << >>
        /\ pc = "loop" => ~next.ok
        /\ pc # "loop" =>
             /\ pc = "done"
             /\ message = "no FX"
             /\ ~menuShown
             /\ dialogFx = << >>

\* A track without effects and without input effects, after fxParams_begin.
C6_Witness ==
    /\ isTrack
    /\ fxTree = << >>
    /\ recTree = << >>
    /\ pc = "done"
    /\ message = "no FX"

\* ---- the last slider request, read back from its history
InRange(v) == param.min <= v /\ v <= param.max
IsStepKey == last.key \in {"up", "down"}
IsMoveKey == last.key \in {"up", "down", "pageup", "pagedown"}
Dir == IF last.key \in {"up", "pageup"} THEN 1 ELSE -1
\* The k-th candidate of the search: the requested value, then steps of the
\* small step from it.
Cand(k) == last.first + Dir * param.step * (k - 1)
Ks == 1..(MaxVal + 1)
\* Candidates in range whose text is not the text the dialog held for v.
DifferentKs == { k \in Ks : InRange(Cand(k)) /\ fmt[Cand(k)] # last.fromText }
\* Those of them that are reached before any candidate returned the empty
\* sentinel, and carry a text themselves.
SnapKs == { k \in DifferentKs :
              \A j \in 1..k : fmt[Cand(j)] # Empty }
Least(S) == CHOOSE k \in S : \A j \in S : k <= j
\* Every candidate in range has the text of v.
AllSame == \A k \in Ks : InRange(Cand(k)) => fmt[Cand(k)] = last.fromText

\* C7 as stated: a step request commits the nearest candidate v + d*step*k
\* in range whose text differs from the text of v, whenever one exists.
C7_Original ==
    (IsStepKey /\ DifferentKs # {}) =>
        /\ last.committed
        /\ val = Cand(Least(DifferentKs))

\* C7: a step request commits the nearest candidate v + d*step*k in range
\* whose text differs from the text of v, provided the formatter returned a
\* text (not the empty sentinel) for it and for every nearer candidate.
C7_NearestDifferent ==
    (IsStepKey /\ SnapKs # {}) =>
        /\ last.committed
        /\ val = Cand(Least(SnapKs))
        /\ stored = val
        /\ \A k \in 1..(Least(SnapKs) - 1) : fmt[Cand(k)] = last.fromText

\* A step that skipped two candidates with unchanged text.
C7_Witness ==
    /\ IsStepKey
    /\ SnapKs # {}
    /\ Least(SnapKs) >= 3
    /\ last.committed
    /\ val = Cand(3)

\* The premise of C8: a step up from v whose formatter gives v and v + step
\* the same text.
C8_Premise ==
    /\ last.key = "up"
    /\ InRange(last.from + param.step)
    /\ fmt[last.from] = fmt[last.from + param.step]

C10_EmptyStops ==
    \A i \in 1..Len(last.tested) :
        fmt[last.tested[i]] = Empty =>
            /\ i = Len(last.tested)
            /\ last.end = "empty"
            /\ last.committed
            /\ val = last.first
            /\ stored = last.first
            /\ \A j \in 1..(i - 1) : fmt[last.tested[j]] = last.fromText

\* The sentinel met at the third candidate; the first one is committed.
C10_Witness ==
    /\ IsMoveKey
    /\ Len(last.tested) = 3
    /\ fmt[last.tested[3]] = Empty
    /\ val = last.first
    /\ last.tested[3] # val

\* ---- alternating step up / step down from the first value
\* The up-candidates of the walk's start that carry a text different from
\* the start's text and are reached before any empty text.
StartSnapKs ==
    { k \in Ks :
        /\ InRange(walk.start + param.step * k)
        /\ fmt[walk.start + param.step * k] # walk.startText
        /\ \A j \in 1..k : fmt[walk.start + param.step * j] # Empty }

\* C11 as stated: after any number n >= 1 of (step up, step down) pairs from
\* any start value, the text of the value reached is the start's text.
C11_Original ==
    walk.phase = "pair" => valText = walk.startText

\* C11: after any number n >= 1 of (step up, step down) pairs from a start
\* value whose step up finds, inside [min, max], a candidate with a different
\* non-empty text, the text of the value reached is the start's text.
C11_NoDrift ==
    (walk.phase = "pair" /\ StartSnapKs # {}) =>
        /\ valText = walk.startText
        /\ val <= walk.start + param.step * (Least(StartSnapKs) - 1)
        /\ val >= walk.start

\* Pairs that came back to the start's text at another value than the start.
C11_Witness ==
    /\ walk.phase = "pair"
    /\ StartSnapKs # {}
    /\ val # walk.start
    /\ valText = walk.startText
    /\ last.from # walk.start + param.step

\* C12: a slider request is rejected exactly when it asks for the current
\* value or a value outside [min, max]; a rejected request passes nothing to
\* setValue and leaves val, valText and the backing store as they were; any
\* other request passes exactly the committed val to setValue, once, and
\* leaves valText at the text of val, or at the percentage when that text is
\* empty.
C12_WriteThrough ==
    last.key # "none" =>
        /\ last.committed <=> (last.first # last.from /\ InRange(last.first))
        /\ IF last.committed
           THEN /\ last.written = <<val>>
                /\ stored = val
                /\ valText = (IF fmt[val] = Empty
                              THEN 1000 + (val * 1000) \div MaxVal
                              ELSE fmt[val])
           ELSE /\ last.written = << >>
                /\ val = last.from
                /\ stored = last.from
                /\ valText = last.fromText

\* A commit that snapped past the requested value.
C12_Witness ==
    /\ last.committed
    /\ val # last.first
    /\ last.written = <<val>>
    /\ stored = val
    /\ valText = fmt[val]

\* C13: with n >= 1 visible entries and the cursor c in [0, n-1], Ctrl+Tab
\* leaves the cursor at (c+1) mod n and Ctrl+Shift+Tab at (c-1) mod n, inside
\* [0, n-1], and the handler materializes exactly the Param of the catalog
\* entry visibleParams[cursor], whose value and text the dialog then shows.
C13_TabWraps ==
    (/\ lastTab.key \in {"tab", "shifttab"}
     /\ lastTab.n >= 1
     /\ lastTab.from \in 0..(lastTab.n - 1)) =>
        /\ curSel = (lastTab.from + (IF lastTab.key = "tab" THEN 1 ELSE -1))
                        % lastTab.n
        /\ curSel \in 0..(Len(visibleParams) - 1)
        /\ paramNum = visibleParams[curSel + 1]
        /\ materialized = <<paramNum>>
        /\ val = hostVals[paramNum + 1]
        /\ valText = updateValue(val)

\* Ctrl+Shift+Tab from the first entry of a filtered list wrapped to its
\* last entry.
C13_Witness ==
    /\ lastTab.key = "shifttab"
    /\ lastTab.from = 0
    /\ lastTab.n >= 2
    /\ lastTab.n < paramCount
    /\ curSel = lastTab.n - 1
    /\ paramNum = visibleParams[curSel + 1]
    /\ paramNum # curSel

\* C14: every constructed Param has min <= max and step > 0 once its
\* constructor has finished.
C14_RangeAndStep ==
    obj.kind # "none" => (obj.min <= obj.max /\ obj.step > 0)

\* C15: an effect parameter built from a host report without a step has
\* step = (max-min)/1000 and largeStep = 20*step; from a report with a step
\* but no large step it has that step and largeStep = (max-min)/50 rounded
\* down to a whole multiple of step, or step when that multiple is zero, which
\* is a positive whole multiple of step; from a report with both it has both
\* unchanged.
C15_StepSynthesis ==
    (op.name = "getParam" /\ op.built = <<"fx">>) =>
        LET h == op.result
            d == h.max - h.min
            down == h.step * ((d \div 50) \div h.step)
        IN  /\ h.step = 0 =>
                /\ 1000 * obj.step = d
                /\ obj.largeStep = 20 * obj.step
            /\ (h.step # 0 /\ h.largeStep = 0) =>
                /\ obj.step = h.step
                /\ obj.largeStep = (IF down = 0 THEN h.step ELSE down)
                /\ obj.largeStep >= obj.step
                /\ \E m \in 1..1000 : obj.largeStep = m * obj.step
            /\ (h.step # 0 /\ h.largeStep # 0) =>
                /\ obj.step = h.step
                /\ obj.largeStep = h.largeStep

\* The tokens of a table.
TableTokens(values) == { values[v][2] : v \in 1..Len(values) }

\* C16: getValue() of an enumerated Param over an N-entry table is a whole
\* ordinal in [0, N-1]; it is 0 when the host's token is empty, is not in the
\* table, or the query fails.
C16_OrdinalInRange ==
    (op.name = "getValue" /\ obj.kind = "named") =>
        /\ op.result \in { 1000 * k : k \in 0..(Len(obj.values) - 1) }
        /\ (\/ ~op.arg
            \/ hostCfg[obj.name] = ""
            \/ hostCfg[obj.name] \notin TableTokens(obj.values)) =>
                op.result = 0

\* The band-type Param read 0 for a token its table does not have.
C16_Witness ==
    /\ op.name = "getValue"
    /\ obj.kind = "named"
    /\ Len(obj.values) = 11
    /\ op.arg
    /\ hostCfg[obj.name] # ""
    /\ hostCfg[obj.name] \notin TableTokens(obj.values)
    /\ op.result = 0

\* C17: after setValue(k) on an enumerated Param the host was written once,
\* at the source's effect, with the token of entry k; getValue() then
\* returns k, the tokens of the table being pairwise distinct;
\* getValueText(k) is the label of entry k; on the band-type table
\* setValue(2) leaves token "8", text "band", and reads back 2.
C17_RoundTrip ==
    (op.name = "setValue" /\ obj.kind = "named") =>
        LET k == op.arg \div 1000
        IN  /\ op.writes = << [fx |-> source.fx, name |-> obj.name,
                               value |-> obj.values[k + 1][2]] >>
            /\ hostCfg[obj.name] = obj.values[k + 1][2]
            /\ getValue(obj, TRUE) = op.arg
            /\ NamedGetValueText(obj, op.arg) = obj.values[k + 1][1]
            /\ \A u, v \in 1..Len(obj.values) :
                   u # v => obj.values[u][2] # obj.values[v][2]
            /\ (obj.values = REAEQ_BAND_TYPE_VALUES /\ op.arg = 2000) =>
                   /\ NamedGetValueText(obj, op.arg) = "band"
                   /\ hostCfg[obj.name] = "8"

\* setValue(2) on the band-type Param, which read another ordinal before.
C17_Witness ==
    /\ op.name = "setValue"
    /\ obj.kind = "named"
    /\ obj.values = REAEQ_BAND_TYPE_VALUES
    /\ op.arg = 2000
    /\ op.result # 2000
    /\ getValue(obj, TRUE) = 2000

\* C18: for a volume Param of either polarity, getValue() is never negative;
\* setValue(v) leaves the host field at v with the polarity the field had at
\* construction (negated when it was negative), so the field never changes
\* polarity; and setValue(getValue()) leaves the host field as it was.
C18_VolumeSign ==
    obj.kind = "vol" =>
        /\ getValue(obj, TRUE) >= 0
        /\ IF obj.flipSign THEN raw <= 0 ELSE raw >= 0
        /\ op.name = "getValue" => op.result >= 0
        /\ op.name = "setValue" =>
              /\ raw = (IF obj.flipSign THEN -op.arg ELSE op.arg)
              /\ getValue(obj, TRUE) = op.arg
              /\ op.arg = op.result => raw = op.before

\* setValue(getValue()) on a volume Param whose host field is negative.
C18_Witness ==
    /\ obj.kind = "vol"
    /\ obj.flipSign
    /\ op.name = "setValue"
    /\ op.arg = op.result
    /\ op.arg > 0
    /\ raw < 0
    /\ raw = op.before

\* C19: each getParam on an effect's source, the call a selection in the
\* dialog makes, writes last_touched and then focused = 1 to the host at the
\* flat index of the source's effect and at no other: last_touched is the
\* host's parameter number for a numbered entry and 0 for a named-config
\* entry.
C19_SelectionMarks ==
    (op.name = "getParam" /\ source.kind = "fx") =>
        LET namedCount == Len(source.namedConfigParams)
            num == IF op.arg < namedCount THEN 0 ELSE op.arg - namedCount
        IN  /\ op.writes =
                 << [fx |-> source.fx, name |-> "last_touched", value |-> num],
                    [fx |-> source.fx, name |-> "focused", value |-> 1] >>
            /\ \A i \in 1..Len(op.writes) : op.writes[i].fx = source.fx

\* C20: constructing a source and reading its title, parameter count and
\* parameter names constructs no Param and writes nothing to the host; a
\* Param is constructed only by getParam.
C20_Lazy ==
    /\ op.name \in {"construct", "read"} =>
           (op.built = << >> /\ op.writes = << >>)
    /\ op.built # << >> => op.name = "getParam"

\* C21: an edit whose text is empty or equal to getValueForEditing() writes
\* nothing and leaves the dialog as it was; any other text is passed to
\* setValueFromEdited, whatever its value, also outside [min, max], and val
\* and valText are then those of the value read back from the host.
C21_EditWritesThrough ==
    lastEdit.text.kind # "none" =>
        IF lastEdit.text.kind = "empty" \/ lastEdit.text = lastEdit.editing
        THEN /\ lastEdit.written = << >>
             /\ stored = lastEdit.stored
             /\ val = lastEdit.from
             /\ valText = lastEdit.fromText
        ELSE /\ lastEdit.written =
                    << IF lastEdit.text.kind = "num" THEN lastEdit.text.v
                       ELSE 0 >>
             /\ val = stored
             /\ valText = updateValue(stored)

\* A number above max was written and the host kept it.
C21_Witness ==
    /\ lastEdit.text.kind = "num"
    /\ lastEdit.text.v > param.max
    /\ lastEdit.written = <<lastEdit.text.v>>
    /\ val = lastEdit.text.v
    /\ val # lastEdit.from

\* C25: at each yield isContainer() is true exactly when the host reports a
\* nonzero container_count at the yielded flat index; after a yield with
\* isContainer() the next call yields child 0 of that node, one level
\* deeper, and after any other yield the next call does not raise the level.
C25_DescendIffContainer ==
    \A i \in 1..Len(yields) :
        /\ yields[i].container = (ContainerCount(yields[i].fx) # 0)
        /\ (i = Len(yields) /\ pc = "loop") =>
              /\ yields[i].container = (containedCount # 0)
              /\ yields[i].container =>
                    /\ next.ok
                    /\ StackPath(next.stack) = Append(yields[i].path, 1)
                    /\ getLevel(next.stack) = yields[i].level + 1
              /\ (~yields[i].container /\ next.ok) =>
                    getLevel(next.stack) <= yields[i].level
        /\ i < Len(yields) =>
              IF yields[i].container
              THEN /\ yields[i + 1].path = Append(yields[i].path, 1)
                   /\ yields[i + 1].rec = yields[i].rec
                   /\ yields[i + 1].level = yields[i].level + 1
              ELSE yields[i + 1].level <= yields[i].level
        /\ (i = Len(yields) /\ pc # "loop") => ~yields[i].container

\* A container was entered, and a plain effect inside a container was
\* followed by a node of a higher level of the tree.
C25_Witness ==
    /\ \E i \in 1..(Len(yields) - 1) :
          /\ yields[i].container
          /\ yields[i + 1].level = yields[i].level + 1
    /\ \E i \in 1..(Len(yields) - 1) :
          /\ ~yields[i].container
          /\ yields[i + 1].level < yields[i].level
          /\ yields[i + 1].rec = yields[i].rec

\* C26: with N effects in all (normal tree plus input/monitoring tree),
\* exactly the first N calls of next() return true and call N+1 returns
\* false.
C26_Terminates ==
    LET N == Len(NormalOrder) + Len(RecOrder)
    IN  /\ Len(yields) <= N
        /\ pc = "loop" => (next.ok <=> Len(yields) < N)
        /\ pc # "loop" => Len(yields) = N

RECURSIVE NestedAddress(_, _)
\* The host's number for path p below the top level of forest f: the
\* position at this level plus (sibling count + 1) times the number of the
\* rest of the path.
NestedAddress(f, p) ==
    IF Len(p) = 1 THEN Head(p)
    ELSE Head(p) + (Len(f) + 1) * NestedAddress(f[Head(p)], Tail(p))

\* The flat index path p has in forest f taken as a normal tree.
NormalTreeIndex(f, p) ==
    IF Len(p) = 1 THEN Head(p) - 1
    ELSE ContainerFlag + NestedAddress(f, p)

\* C28: every yield of the input/monitoring tree carries 0x1000000 plus the
\* flat index its path has in a normal tree, at every depth.
C28_RecOffsetOnce ==
    \A i \in 1..Len(yields) :
        yields[i].fx =
            (IF yields[i].rec THEN RecOffset ELSE 0) +
            NormalTreeIndex(IF yields[i].rec THEN recTree ELSE fxTree,
                            yields[i].path)

\* C27: once next() has returned false every later call returns false too,
\* and no call reads the top frame of an empty frame stack.
C27_ExhaustionTerminal ==
    /\ \A i, j \in 1..Len(iterHist.results) :
          (i < j /\ ~iterHist.results[i]) => ~iterHist.results[j]
    /\ ~iterHist.emptyRead

\* InsertMenuItem by position: a position past the end appends.
InsertAt(s, p, x) ==
    LET q == IF p > Len(s) THEN Len(s) ELSE p
    IN  SubSeq(s, 1, q) \o <<x>> \o SubSeq(s, q + 1, Len(s))

RECURSIVE MenuLayout(_, _)
\* The items of menu m, top to bottom, after the first k insertions.
MenuLayout(k, m) ==
    IF k = 0 THEN << >>
    ELSE LET before == MenuLayout(k - 1, m)
         IN  IF items[k].menu = m
             THEN InsertAt(before, items[k].pos, items[k])
             ELSE before

CommandItems == { k \in 1..Len(items) : items[k].sub = 0 }

\* C30: every command item of the menu carries a yielded flat index plus one,
\* never 0, and no two carry the same id; after the menu the dialog is over
\* the returned id minus one, and there is none when 0 was returned; with one
\* yielded node there is no menu and the dialog is over that node's index.
C30_MenuDecodes ==
    /\ \A k \in CommandItems :
          /\ items[k].wID # 0
          /\ \E i \in 1..Len(yields) : items[k].wID = yields[i].fx + 1
    /\ \A i \in 1..Len(yields) :
          \E k \in CommandItems : items[k].wID = yields[i].fx + 1
    /\ \A k, l \in CommandItems : items[k].wID = items[l].wID => k = l
    /\ Cardinality(CommandItems) = Len(yields)
    /\ menuShown => Len(yields) > 1
    /\ pc = "menu" => dialogFx = << >>
    /\ (pc = "done" /\ menuShown) =>
          /\ fx = -1 => dialogFx = << >>
          /\ fx # -1 => /\ dialogFx = <<fx>>
                        /\ \E i \in 1..Len(yields) : yields[i].fx = fx
    /\ (pc = "done" /\ Len(yields) = 1) =>
          /\ ~menuShown
          /\ dialogFx = <<yields[1].fx>>

\* The first effect of a chain of several was chosen from the menu.
C30_Witness ==
    /\ pc = "done"
    /\ menuShown
    /\ Len(yields) > 2
    /\ yields[1].fx = 0
    /\ dialogFx = <<0>>
    /\ \E i \in 1..Len(yields) : yields[i].container

\* The only effect of a chain: no menu.
C30_WitnessSingle ==
    /\ pc = "done"
    /\ Len(yields) = 1
    /\ dialogFx = <<yields[1].fx>>

\* C24: at most one report timer is live and it is the one the handle names;
\* a request leaves exactly the new timer when the FX list is focused and none
\* when it is not; a firing leaves no timer and a zero handle and reports at
\* most once; when the list stayed focused and every request came before the
\* first firing there is one firing and one report.
C24_FireOnce ==
    /\ Cardinality(hostTimers) <= 1
    /\ hostTimers \subseteq {reportFxChainBypassTimer}
    /\ bypassHist.last = "scheduled" =>
          hostTimers = {reportFxChainBypassTimer}
    /\ bypassHist.last = "declined" => hostTimers = {}
    /\ bypassHist.last = "fired" =>
          hostTimers = {} /\ reportFxChainBypassTimer = 0
    /\ bypassHist.reports <= bypassHist.fires
    /\ (/\ ~bypassHist.unfocusedSeen
        /\ bypassHist.fires >= 1
        /\ bypassHist.reqs = bypassHist.firstFireReqs) =>
          bypassHist.fires = 1 /\ bypassHist.reports = 1

\* Three requests in a row, then the one firing and its report.
C24_Witness ==
    /\ ~bypassHist.unfocusedSeen
    /\ bypassHist.reqs = MaxRequests
    /\ bypassHist.firstFireReqs = MaxRequests
    /\ bypassHist.last = "fired"
    /\ bypassHist.reports = 1

\* The host has no focused FX and the fake focus names nothing.
NoSubject ==
    /\ subject.focusedFx \in {"none", "unfocused"}
    /\ \/ subject.fakeFocus = "other"
       \/ subject.fakeFocus = "track" /\ ~subject.lastTouchedTrack
       \/ subject.fakeFocus = "item" /\ ~subject.selectedItem

\* The same with a selected item that has no active take.
NoTake ==
    /\ subject.focusedFx \in {"none", "unfocused"}
    /\ subject.fakeFocus = "item"
    /\ ~subject.activeTake

\* C22: with no focused FX and a fake focus that resolves to nothing, either
\* command constructs no dialog, shows no menu, writes nothing to the host
\* and leaves the dialogs, the key hooks, the flag and the focus as they were.
C22_NoSubjectNoOp ==
    (\/ NoSubject /\ cmdHist.cmd \in {"params", "fxParams"}
     \/ NoTake /\ cmdHist.cmd = "fxParams") =>
        /\ cmdHist.ctor = << >>
        /\ ~cmdHist.menu
        /\ ~cmdHist.writes
        /\ Proc = cmdHist.before

\* A command was given in the FX chain window whose FX is open but no longer
\* focused, with the fake focus on an item while no item is selected.
C22_Witness ==
    /\ cmdHist.cmd = "params"
    /\ subject.focusedFx = "unfocused"
    /\ subject.fakeFocus = "item"
    /\ ~subject.selectedItem
    /\ subject.lastTouchedTrack
    /\ hostFocus = FxChainWnd
    /\ dialogs = << >>

\* C23: a ParamsDialog constructed over an empty catalog leaves no window
\* and no registered key hook of its own, leaves isParamsDialogOpen false,
\* and leaves the focus, the other dialogs and the host as they were.
C23_EmptyCatalog ==
    cmdHist.ctor = <<0>> =>
        /\ DOMAIN dialogs = DOMAIN cmdHist.before.dialogs
        /\ accels = cmdHist.before.accels
        /\ ~isParamsDialogOpen
        /\ hostFocus = cmdHist.before.focus
        /\ dialogs = cmdHist.before.dialogs
        /\ ~cmdHist.writes

\* C31: a slider key pressed with val in [min, max] leaves val in
\* [min, max], and every value the slider path passes to setValue is in
\* [min, max].
C31_SliderInRange ==
    /\ param.min <= val /\ val <= param.max
    /\ param.min <= stored /\ stored <= param.max
    /\ \A i \in 1..Len(last.written) :
          param.min <= last.written[i] /\ last.written[i] <= param.max

\* A page key whose request was out of range and rejected, and an arrow key
\* whose search ran out of the range and fell back to its first candidate.
C31_Witness ==
    \/ /\ last.key = "pageup"
       /\ last.first > param.max
       /\ ~last.committed
       /\ val = last.from
    \/ /\ last.key = "up"
       /\ last.committed
       /\ last.end = "range"
       /\ Len(last.tested) >= 2
       /\ last.written = <<last.first>>

\* +1 for page up, -1 for page down.
PageSign == IF last.key = "pageup" THEN 1 ELSE -1

\* C32: after a page key that was not rejected the first candidate tested is
\* v +/- largeStep, candidate k + 1 is that value +/- k * step, and the
\* committed value lies at least largeStep from v in the key's direction.
C32_LargeStep ==
    (last.key \in {"pageup", "pagedown"} /\ last.committed) =>
        /\ last.tested # << >>
        /\ \A k \in 1..Len(last.tested) :
              last.tested[k] = last.from + PageSign *
                                  (param.largeStep + (k - 1) * param.step)
        /\ \A k \in 1..(Len(last.tested) - 1) :
              getValueText(last.tested[k]) = last.fromText
        /\ (val - last.from) * PageSign >= param.largeStep
        /\ last.written = <<val>>

\* Page up whose first candidate reads like v: the next small step is taken.
C32_Witness ==
    /\ last.key = "pageup"
    /\ last.committed
    /\ last.end = "snap"
    /\ Len(last.tested) = 2
    /\ param.largeStep > param.step
    /\ val = last.from + param.largeStep + param.step

\* The bound the last key asked for: max for Home, min for End.
BoundAsked == IF last.key = "home" THEN param.max ELSE param.min

\* C33: Home commits max and End commits min whatever the texts are; pressed
\* at that bound already, the key commits and writes nothing and leaves val
\* and its text as they were.
C33_HomeEnd ==
    last.key \in {"home", "end"} =>
        IF last.from = BoundAsked
        THEN /\ ~last.committed
             /\ last.written = << >>
             /\ val = last.from
             /\ valText = last.fromText
             /\ stored = val
        ELSE /\ last.committed
             /\ val = BoundAsked
             /\ last.written = <<BoundAsked>>
             /\ stored = BoundAsked

\* Home pressed where the text at max is the text already shown.
C33_Witness ==
    /\ last.key = "home"
    /\ last.from # param.max
    /\ last.fromText # Empty
    /\ getValueText(param.max) = last.fromText
    /\ val = param.max
    /\ last.end = "range"

\* C34: Ctrl+Tab and Ctrl+Shift+Tab pressed while no entry is visible select
\* nothing, never index visibleParams and materialize no Param.
C34_EmptyListTab ==
    (lastTab.key \in {"tab", "shifttab"} /\ lastTab.n = 0) =>
        /\ ~fault
        /\ materialized = << >>
        /\ curSel = lastTab.from

\* C35: after a rebuild visibleParams lists exactly the catalog numbers that
\* pass the filter, in strictly increasing order; the parameter selected
\* before stays selected when it still passes, otherwise the first visible
\* entry is selected; with a visible entry the slider is enabled and the
\* active Param is the one at the cursor; with none the slider is disabled,
\* nothing is selected and the active Param is the one from before.
C35_Rebuild ==
    lastTab.key = "filter" =>
        /\ \A i, j \in 1..Len(visibleParams) :
              i < j => visibleParams[i] < visibleParams[j]
        /\ { visibleParams[i] : i \in 1..Len(visibleParams) } = lastRebuild.pass
        /\ IF lastRebuild.pass = {}
           THEN /\ ~sliderEnabled
                /\ curSel = -1
                /\ materialized = << >>
                /\ paramNum = lastRebuild.paramNum
           ELSE /\ sliderEnabled
                /\ curSel \in 0..(Len(visibleParams) - 1)
                /\ IF lastRebuild.prevSelParam \in lastRebuild.pass
                   THEN visibleParams[curSel + 1] = lastRebuild.prevSelParam
                   ELSE curSel = 0
                /\ paramNum = visibleParams[curSel + 1]
                /\ materialized = <<paramNum>>
                /\ val = hostVals[paramNum + 1]

\* The last of three parameters stayed selected while the first one was
\* filtered out.
C35_Witness ==
    /\ lastTab.key = "filter"
    /\ lastRebuild.prevSelParam = 2
    /\ lastRebuild.pass = {1, 2}
    /\ lastTab.from = 2
    /\ curSel = 1
    /\ paramNum = 2

\* C36: isParamsDialogOpen is true exactly when a ParamsDialog window
\* exists.
C36_FlagMatchesWindow ==
    isParamsDialogOpen <=> (DOMAIN dialogs # {})

\* The dialog the last close destroyed.
ClosedId ==
    CHOOSE i \in DOMAIN cmdHist.before.dialogs : i \notin DOMAIN dialogs

\* Where the focus is after dialog i was destroyed and its destructor
\* called SetFocus(prev), or did not for a null prev.
FocusAfterClose(i, prev) ==
    LET left == IF cmdHist.before.focus = DlgWnd(i) THEN MainWnd
                ELSE cmdHist.before.focus
    IN  IF prev # NullWnd /\ prev \in Windows(Proc) THEN prev ELSE left

\* C37: a dialog that lost the activation has a close posted and a null
\* prevFocus, and every dialog with a posted close is eventually destroyed,
\* the focus not being set back to what it was when the dialog opened; a
\* dialog closed while active, which was never deactivated, does get its
\* previous focus restored, its own destruction posting nothing; the
\* destroyed dialog is gone with its key hook, which every live dialog and
\* no other has.
C37_DeactivationCloses ==
    /\ [](/\ accels = DOMAIN dialogs
          /\ \A i \in DOMAIN dialogs :
                /\ dialogs[i].closePosted => dialogs[i].prevFocus = NullWnd
                /\ (/\ i \in DOMAIN cmdHist.before.dialogs
                    /\ cmdHist.before.focus = DlgWnd(i)
                    /\ hostFocus # DlgWnd(i)) => dialogs[i].closePosted
          /\ cmdHist.cmd = "close" =>
                /\ Cardinality(DOMAIN cmdHist.before.dialogs) =
                      Cardinality(DOMAIN dialogs) + 1
                /\ ClosedId \notin accels
                /\ hostFocus =
                      FocusAfterClose(ClosedId,
                         IF cmdHist.before.dialogs[ClosedId].closePosted
                         THEN NullWnd
                         ELSE cmdHist.before.dialogs[ClosedId].prevFocus))
    /\ \A i \in 1..MaxDialogs :
          (i \in DOMAIN dialogs /\ dialogs[i].closePosted)
             ~> (i \notin DOMAIN dialogs)

\* A dialog opened from the FX chain window lost the focus to the main
\* window and was then destroyed by its posted close: the focus stays on the
\* main window.
C37_Witness ==
    /\ cmdHist.cmd = "close"
    /\ cmdHist.before.dialogs[ClosedId].closePosted
    /\ cmdHist.before.focus = MainWnd
    /\ hostFocus = MainWnd
    /\ dialogs = << >>

\* C38: with a formatter that returns nothing exactly when the text is that
\* of its previous call, every getValueText call on a constructed length
\* Param returns the ruler text of its argument, never the empty string, and
\* lastText then holds that text.
C38_LenTextCached ==
    lenHist.value # -1 =>
        /\ lenHist.text = timeText[lenHist.value]
        /\ lenHist.text # Empty
        /\ lastText = lenHist.text
        /\ timeCache = lenHist.text

\* A call for which the formatter returned nothing, answered from lastText
\* with the ruler text of its argument, while other values have other texts.
C38_Witness ==
    /\ lenHist.value # -1
    /\ lenHist.formatted = Empty
    /\ lenHist.text = timeText[lenHist.value]
    /\ \E other \in DOMAIN timeText : timeText[other] # lenHist.text

====
